---------------------------- MODULE Spec2Model ----------------------------
(***************************************************************************)
(* A model of the Emacs-in-the-browser editor with its embedded Lisp:      *)
(* the reader (parse), the evaluator (evalLisp), the primitive library     *)
(* (createGlobalEnv), the printer (printLisp), the scanner for the         *)
(* expression before the cursor (findLastSexp), the host capability        *)
(* interface (the api object) over the editor state, the top-level entry   *)
(* point evalSexp, and the editor's commands and key handlers.             *)
(*                                                                         *)
(* Text is a TLA+ string, read with Len, SubSeq and \o: a position is      *)
(* 0-based as in the source, and CharAt(s, pos) is s[pos].                 *)
(*                                                                         *)
(* A LispVal is a record with the fields the source's constructor sets:    *)
(*   [type |-> "NUMBER", value |-> n]     [type |-> "STRING", value |-> s] *)
(*   [type |-> "BOOL", value |-> b]       [type |-> "NULL"]                *)
(*   [type |-> "SYMBOL", name |-> s]      [type |-> "LIST", elements |-> q]*)
(*   [type |-> "FUNC", params |-> q, body |-> v]                           *)
(*   [type |-> "PRIMITIVE", fn |-> name of the registered primitive]       *)
(* JavaScript's undefined, where a LispVal is expected, is                 *)
(*   [type |-> "UNDEFINED"].                                               *)
(* A number is a double with a short decimal expansion.  An integral one   *)
(* is [type |-> "NUMBER", value |-> n]; one that is no integer is          *)
(* [type |-> "NUMBER", mant |-> m, scale |-> k], the number m / 10^k with  *)
(* m not a multiple of 10.  Only the reader and the printer handle the     *)
(* second kind: the inputs of the model do no arithmetic on it, and call   *)
(* "/" with no inexact quotient.                                           *)
(*                                                                         *)
(* An exception is the field err of a result: "" when nothing was thrown,  *)
(* the Error's message otherwise.                                          *)
(***************************************************************************)
EXTENDS Integers, Sequences, FiniteSets, TLC

VARIABLES
  buffers,         \* stateRef.current.buffers: the sequence of Buffer records
  activeBufferId,  \* stateRef.current.activeBufferId
  editorMode,      \* stateRef.current.editorMode
  chordStack,      \* stateRef.current.chordStack
  minibuffer,      \* stateRef.current.minibuffer: its type, prompt and input
  message,         \* stateRef.current.message: the echo area
  lispEnv,         \* lispEnvRef.current.vars: the global environment's bindings
  pending,         \* the requests to the generative-text service that are awaited
  last             \* the last operation: its name, its input and what it returned

vars ==
  <<buffers, activeBufferId, editorMode, chordStack, minibuffer, message, lispEnv, pending,
    last>>

\* The part of the state that only the key handlers and the completions of
\* the awaited requests change.
editorVars == <<editorMode, chordStack, minibuffer, pending>>

(***************************************************************************)
(* Bounds of the model.                                                    *)
(***************************************************************************)
\* The depth of nested evalLisp calls at which the JavaScript engine's call
\* stack is exhausted (a RangeError is thrown).
MaxStack == 14

\* The most characters the evaluations of a session insert into the buffers.
MaxInserted == 3

\* The longest source text given to parse in the reader's specification.
MaxSrcLen == 4

\* The most requests to the generative-text service awaited at a time.
MaxPending == 1

\* The last cursor offset at which C-n and C-p are pressed in the
\* specification of the cursor: an offset in the second line of *scratch*.
MaxKeyCursor == 75

(***************************************************************************)
(* Text.                                                                   *)
(***************************************************************************)
Min(a, b) == IF a < b THEN a ELSE b
Max(a, b) == IF a > b THEN a ELSE b

\* s[pos] of JavaScript: the character at the 0-based pos, or undefined
\* (here "", which is equal to no character) outside the string.
CharAt(s, pos) == IF pos >= 0 /\ pos < Len(s) THEN SubSeq(s, pos + 1, pos + 1) ELSE ""

\* s.slice(from, to); a negative offset counts from the end of s.
Slice(s, from, to) ==
  LET a == IF from < 0 THEN Max(Len(s) + from, 0) ELSE Min(from, Len(s))
      b == IF to < 0 THEN Max(Len(s) + to, 0) ELSE Min(to, Len(s))
  IN IF a >= b THEN "" ELSE SubSeq(s, a + 1, b)

\* s.slice(from)
SliceFrom(s, from) == Slice(s, from, Len(s))

\* /\s/.test(c), for the white space of the model's alphabet.
IsSpace(c) == c \in {" ", "\n", "\t", "\r"}

IsDigit(c) == c \in {"0", "1", "2", "3", "4", "5", "6", "7", "8", "9"}

DigitVal(c) ==
  CASE c = "0" -> 0 [] c = "1" -> 1 [] c = "2" -> 2 [] c = "3" -> 3 [] c = "4" -> 4
    [] c = "5" -> 5 [] c = "6" -> 6 [] c = "7" -> 7 [] c = "8" -> 8 [] c = "9" -> 9

RECURSIVE AllDigits(_)
AllDigits(s) == Len(s) = 0 \/ (IsDigit(Head(s)) /\ AllDigits(Tail(s)))

RECURSIVE IndexOf(_, _, _)
\* s.indexOf(c, from), -1 when c does not occur at or after from.
IndexOf(s, c, from) ==
  IF from >= Len(s) THEN -1
  ELSE IF CharAt(s, from) = c THEN from
  ELSE IndexOf(s, c, from + 1)

RECURSIVE LastIndexFrom(_, _, _)
\* The last 0-based index at or before i where s has the character c, or -1.
LastIndexFrom(s, c, i) ==
  IF i < 0 THEN -1
  ELSE IF CharAt(s, i) = c THEN i
  ELSE LastIndexFrom(s, c, i - 1)

\* s.lastIndexOf(c, from): from is clamped to 0..s.length.
LastIndexOf(s, c, from) == LastIndexFrom(s, c, Min(Max(from, 0), Len(s)))

\* The sequence q without its element at the 1-based index i.
RemoveAt(q, i) == SubSeq(q, 1, i - 1) \o SubSeq(q, i + 1, Len(q))

RECURSIVE NatOfDigits(_, _)
NatOfDigits(s, acc) ==
  IF Len(s) = 0 THEN acc ELSE NatOfDigits(Tail(s), 10 * acc + DigitVal(Head(s)))

RECURSIVE NatToStr(_)
NatToStr(n) ==
  IF n < 10 THEN SubSeq("0123456789", n + 1, n + 1)
  ELSE NatToStr(n \div 10) \o SubSeq("0123456789", (n % 10) + 1, (n % 10) + 1)

\* Number.prototype.toString of an integral double.
NumToStr(n) == IF n < 0 THEN "-" \o NatToStr(-n) ELSE NatToStr(n)

RECURSIVE Zeros(_)
Zeros(n) == IF n <= 0 THEN "" ELSE "0" \o Zeros(n - 1)

\* Number.prototype.toString of the double m / 10^k that is no integer:
\* exponent notation below 1e-6, decimal notation from there on.
DecimalToStr(m, k) ==
  LET d == NatToStr(IF m < 0 THEN 0 - m ELSE m)
      sign == IF m < 0 THEN "-" ELSE ""
  IN IF Len(d) <= k - 6
     THEN sign \o SubSeq(d, 1, 1) \o (IF Len(d) > 1 THEN "." \o SubSeq(d, 2, Len(d)) ELSE "")
            \o "e-" \o NatToStr(k - Len(d) + 1)
     ELSE IF Len(d) > k
     THEN sign \o SubSeq(d, 1, Len(d) - k) \o "." \o SubSeq(d, Len(d) - k + 1, Len(d))
     ELSE sign \o "0." \o Zeros(k - Len(d)) \o d

RECURSIVE ReplaceAll(_, _, _)
\* s.replace(/pat/g, rep) for a pattern pat of two literal characters: the
\* matches are found left to right and do not overlap.
ReplaceAll(s, pat, rep) ==
  IF Len(s) < 2 THEN s
  ELSE IF SubSeq(s, 1, 2) = pat THEN rep \o ReplaceAll(SubSeq(s, 3, Len(s)), pat, rep)
  ELSE SubSeq(s, 1, 1) \o ReplaceAll(Tail(s), pat, rep)

(***************************************************************************)
(* Values.                                                                 *)
(***************************************************************************)
mkNum(n) == [type |-> "NUMBER", value |-> n]
mkStr(s) == [type |-> "STRING", value |-> s]
mkSym(s) == [type |-> "SYMBOL", name |-> s]
mkBool(b) == [type |-> "BOOL", value |-> b]
mkList(elm) == [type |-> "LIST", elements |-> elm]
mkNull == [type |-> "NULL"]
\* mkNum of the double m / 10^k, which is no integer.
mkDecimal(m, k) == [type |-> "NUMBER", mant |-> m, scale |-> k]
IsDecimal(v) == "scale" \in DOMAIN v

\* JavaScript's undefined where a LispVal is expected.
Undefined == [type |-> "UNDEFINED"]
IsUndefined(v) == v.type = "UNDEFINED"

\* JavaScript's undefined where a string is expected (a symbol's name, the
\* text printLisp returns): no text the reader produces contains a tab.
UndefinedName == "\t<undefined>"

\* elements[i] of JavaScript, 0-based: undefined past the end.
ElemAt(elements, i) == IF i >= 0 /\ i < Len(elements) THEN elements[i + 1] ELSE Undefined

\* v.name: undefined on every value that is not a symbol.
NameOf(v) == IF v.type = "SYMBOL" THEN v.name ELSE UndefinedName

\* Truthiness that also takes the number 0 for false.
isTrueZeroFalse(v) ==
  ~(v.type = "NULL" \/ (v.type = "BOOL" /\ v.value = FALSE)
      \/ (v.type = "NUMBER" /\ v.value = 0))

isTrue(v) == ~(v.type = "NULL" \/ (v.type = "BOOL" /\ v.value = FALSE))

\* The message of V8's TypeError for reading property p of undefined.
TypeErrorReading(p) == "Cannot read properties of undefined (reading '" \o p \o "')"

(***************************************************************************)
(* The reader.  Each reader returns [val, pos, err]: the value read, the   *)
(* cursor after it, and the exception's message ("" when none).            *)
(***************************************************************************)
RECURSIVE skipWhitespace(_, _)
skipWhitespace(input, pos) ==
  IF pos < Len(input) /\ IsSpace(CharAt(input, pos))
  THEN skipWhitespace(input, pos + 1)
  ELSE pos

RECURSIVE StringScan(_, _)
\* The loop of parseString: the position of the closing quote, or a position
\* at or past the end of the input.
StringScan(input, pos) ==
  IF pos < Len(input) /\ CharAt(input, pos) # "\""
  THEN StringScan(input, IF CharAt(input, pos) = "\\" THEN pos + 2 ELSE pos + 1)
  ELSE pos

parseString(input, pos) ==
  LET start == pos + 1
      end == StringScan(input, start)
      s == Slice(input, start, end)
  IN [val |-> mkStr(ReplaceAll(ReplaceAll(s, "\\\"", "\""), "\\n", "\n")),
      pos |-> end + 1,
      err |-> ""]

RECURSIVE AtomScan(_, _)
AtomScan(input, pos) ==
  IF pos < Len(input) /\ ~(IsSpace(CharAt(input, pos)) \/ CharAt(input, pos) \in {"(", ")"})
  THEN AtomScan(input, pos + 1)
  ELSE pos

\* /^-?\d+(\.\d+)?$/.test(token)
IsNumberToken(token) ==
  LET body == IF Len(token) > 0 /\ Head(token) = "-" THEN Tail(token) ELSE token
      dot == IndexOf(body, ".", 0)
  IN IF dot = -1
     THEN Len(body) > 0 /\ AllDigits(body)
     ELSE /\ dot > 0
          /\ dot < Len(body) - 1
          /\ AllDigits(Slice(body, 0, dot))
          /\ AllDigits(SliceFrom(body, dot + 1))

\* The digits of a token IsNumberToken accepts: those before the decimal
\* point, and those after it without the trailing zeros.
Unsigned(token) == IF Head(token) = "-" THEN Tail(token) ELSE token
IntegerDigits(token) ==
  LET body == Unsigned(token)
      dot == IndexOf(body, ".", 0)
  IN IF dot = -1 THEN body ELSE Slice(body, 0, dot)

RECURSIVE StripZeros(_)
StripZeros(digits) ==
  IF Len(digits) > 0 /\ CharAt(digits, Len(digits) - 1) = "0"
  THEN StripZeros(Slice(digits, 0, Len(digits) - 1))
  ELSE digits

FractionDigits(token) ==
  LET body == Unsigned(token)
      dot == IndexOf(body, ".", 0)
  IN IF dot = -1 THEN "" ELSE StripZeros(SliceFrom(body, dot + 1))

Signed(token, n) == IF Head(token) = "-" THEN 0 - n ELSE n

\* parseFloat(token) for a token IsNumberToken accepts whose value is an
\* integer.
parseFloat(token) == Signed(token, NatOfDigits(IntegerDigits(token), 0))

\* mkNum(parseFloat(token)) for a token IsNumberToken accepts.
parseNumber(token) ==
  IF FractionDigits(token) = "" THEN mkNum(parseFloat(token))
  ELSE mkDecimal(Signed(token, NatOfDigits(IntegerDigits(token) \o FractionDigits(token), 0)),
                 Len(FractionDigits(token)))

parseAtom(input, pos) ==
  LET end == AtomScan(input, pos)
      token == Slice(input, pos, end)
      val == IF token = "t" THEN mkBool(TRUE)
             ELSE IF token = "nil" THEN mkNull
             ELSE IF IsNumberToken(token) THEN parseNumber(token)
             ELSE mkSym(token)
  IN [val |-> val, pos |-> end, err |-> ""]

RECURSIVE parseExpr(_, _)
RECURSIVE parseListLoop(_, _, _)
RECURSIVE parseListLoopPartial(_, _, _)

\* The loop of a parseList that returns the elements read when the input
\* ends.
parseListLoopPartial(input, pos, elements) ==
  IF pos < Len(input)
  THEN LET p == skipWhitespace(input, pos)
       IN IF CharAt(input, p) = ")"
          THEN [val |-> mkList(elements), pos |-> p + 1, err |-> ""]
          ELSE LET r == parseExpr(input, p)
               IN IF r.err # "" THEN r
                  ELSE parseListLoopPartial(input, r.pos, Append(elements, r.val))
  ELSE [val |-> mkList(elements), pos |-> pos, err |-> ""]

\* The while loop of parseList, from the cursor pos with the elements read
\* so far.
parseListLoop(input, pos, elements) ==
  IF pos < Len(input)
  THEN LET p == skipWhitespace(input, pos)
       IN IF CharAt(input, p) = ")"
          THEN [val |-> mkList(elements), pos |-> p + 1, err |-> ""]
          ELSE LET r == parseExpr(input, p)
               IN IF r.err # "" THEN r
                  ELSE parseListLoop(input, r.pos, Append(elements, r.val))
  ELSE [val |-> Undefined, pos |-> pos, err |-> "Unclosed list"]

parseList(input, pos) == parseListLoop(input, pos + 1, <<>>)

\* A parseQuote that raises an exception when the input ends after the
\* quote character.
parseQuoteNeedsExpr(input, pos) ==
  LET r == parseExpr(input, pos + 1)
  IN IF skipWhitespace(input, pos + 1) >= Len(input)
     THEN [val |-> Undefined, pos |-> pos + 1, err |-> "Unexpected end of input"]
     ELSE IF r.err # "" THEN r
     ELSE [val |-> mkList(<<mkSym("quote"), r.val>>), pos |-> r.pos, err |-> ""]

parseQuote(input, pos) ==
  LET r == parseExpr(input, pos + 1)
  IN IF r.err # "" THEN r
     ELSE [val |-> mkList(<<mkSym("quote"), r.val>>), pos |-> r.pos, err |-> ""]

parseExpr(input, pos0) ==
  LET pos == skipWhitespace(input, pos0)
  IN IF pos >= Len(input) THEN [val |-> mkNull, pos |-> pos, err |-> ""]
     ELSE IF CharAt(input, pos) = "\"" THEN parseString(input, pos)
     ELSE IF CharAt(input, pos) = "(" THEN parseList(input, pos)
     ELSE IF CharAt(input, pos) = "'" THEN parseQuote(input, pos)
     ELSE parseAtom(input, pos)

parse(input) == parseExpr(input, 0)

(***************************************************************************)
(* The expression before the cursor.                                       *)
(***************************************************************************)
RECURSIVE SkipSpaceBack(_, _)
\* while (pos >= 0 && /\s/.test(text[pos])) pos--
SkipSpaceBack(text, pos) ==
  IF pos >= 0 /\ IsSpace(CharAt(text, pos)) THEN SkipSpaceBack(text, pos - 1) ELSE pos

RECURSIVE ParenScanAny(_, _, _)
\* The backward scan that stops at the first "(" it meets.
ParenScanAny(text, pos, depth) ==
  IF pos >= 0 /\ depth > 0
  THEN IF CharAt(text, pos) = "(" THEN [pos |-> pos, depth |-> 0]
       ELSE ParenScanAny(text, pos - 1, depth)
  ELSE [pos |-> pos, depth |-> depth]

RECURSIVE ParenScan(_, _, _)
\* The backward scan for the "(" of a ")": the offset and the depth it
\* stops with.
ParenScan(text, pos, depth) ==
  IF pos >= 0 /\ depth > 0
  THEN LET c == CharAt(text, pos)
           d == IF c = ")" THEN depth + 1 ELSE IF c = "(" THEN depth - 1 ELSE depth
       IN IF d > 0 THEN ParenScan(text, pos - 1, d) ELSE [pos |-> pos, depth |-> d]
  ELSE [pos |-> pos, depth |-> depth]

RECURSIVE QuoteScan(_, _)
\* The backward scan for the double quote that opens a string: one with no
\* backslash before it.
QuoteScan(text, pos) ==
  IF pos >= 0
  THEN IF CharAt(text, pos) = "\"" /\ CharAt(text, pos - 1) # "\\" THEN pos
       ELSE QuoteScan(text, pos - 1)
  ELSE pos

RECURSIVE AtomScanBackToSpace(_, _)
\* The backward scan of an atom that stops at white space only.
AtomScanBackToSpace(text, pos) ==
  IF pos >= 0 /\ ~IsSpace(CharAt(text, pos))
  THEN AtomScanBackToSpace(text, pos - 1) ELSE pos

RECURSIVE AtomScanBack(_, _)
\* while (pos >= 0 && !/\s|\(|\)/.test(text[pos])) pos--
AtomScanBack(text, pos) ==
  IF pos >= 0 /\ ~IsSpace(CharAt(text, pos)) /\ CharAt(text, pos) \notin {"(", ")"}
  THEN AtomScanBack(text, pos - 1) ELSE pos

\* findLastSexp(text, cursor) for 0 <= cursor <= text.length: found is
\* FALSE for null, text the string it returns otherwise.
findLastSexp(text, cursor) ==
  LET pos == SkipSpaceBack(text, cursor - 1)
      none == [found |-> FALSE, text |-> ""]
  IN IF pos < 0 THEN none
     ELSE IF CharAt(text, pos) = ")"
       THEN LET r == ParenScan(text, pos - 1, 1)
            IN IF r.depth = 0 THEN [found |-> TRUE, text |-> Slice(text, r.pos, pos + 1)]
               ELSE none
     ELSE IF CharAt(text, pos) = "\""
       THEN [found |-> TRUE, text |-> Slice(text, QuoteScan(text, pos - 1), pos + 1)]
     ELSE [found |-> TRUE, text |-> Slice(text, AtomScanBack(text, pos) + 1, pos + 1)]

(***************************************************************************)
(* The printer.  printLisp returns [text, err]: text is UndefinedName when *)
(* the source returns undefined (a symbol without a name).                 *)
(***************************************************************************)
\* What Array.prototype.join writes for one element: nothing for undefined.
JoinText(t) == IF t = UndefinedName THEN "" ELSE t

RECURSIVE printLisp(_)
RECURSIVE PrintElements(_, _, _)

\* val.elements.map(printLisp).join(' '), from the 1-based element i with
\* the text joined so far.
PrintElements(elements, i, acc) ==
  IF i > Len(elements) THEN [text |-> acc, err |-> ""]
  ELSE LET r == printLisp(elements[i])
       IN IF r.err # "" THEN r
          ELSE PrintElements(elements, i + 1,
                 acc \o (IF i > 1 THEN " " ELSE "") \o JoinText(r.text))

printLisp(val) ==
  IF IsUndefined(val) THEN [text |-> "", err |-> TypeErrorReading("type")]
  ELSE IF val.type = "NULL" THEN [text |-> "nil", err |-> ""]
  ELSE IF val.type = "BOOL" THEN [text |-> IF val.value THEN "t" ELSE "nil", err |-> ""]
  ELSE IF val.type = "NUMBER"
    THEN [text |-> IF IsDecimal(val) THEN DecimalToStr(val.mant, val.scale)
                   ELSE NumToStr(val.value),
          err |-> ""]
  ELSE IF val.type = "STRING" THEN [text |-> "\"" \o val.value \o "\"", err |-> ""]
  ELSE IF val.type = "SYMBOL" THEN [text |-> val.name, err |-> ""]
  ELSE IF val.type = "LIST"
    THEN LET r == PrintElements(val.elements, 1, "")
         IN IF r.err # "" THEN r ELSE [text |-> "(" \o r.text \o ")", err |-> ""]
  ELSE IF val.type = "FUNC" THEN [text |-> "<function>", err |-> ""]
  ELSE IF val.type = "PRIMITIVE" THEN [text |-> "<subr>", err |-> ""]
  ELSE [text |-> "?", err |-> ""]

(***************************************************************************)
(* JSON.stringify of a LispVal, as the message primitive and the           *)
(* invalid-call error use it.                                              *)
(***************************************************************************)
RECURSIVE JsonString(_)
\* The characters of a JSON string literal, without the surrounding quotes.
JsonString(s) ==
  IF Len(s) = 0 THEN ""
  ELSE LET c == Head(s)
           e == IF c = "\"" THEN "\\\""
                ELSE IF c = "\\" THEN "\\\\"
                ELSE IF c = "\n" THEN "\\n"
                ELSE IF c = "\t" THEN "\\t"
                ELSE IF c = "\r" THEN "\\r"
                ELSE c
       IN e \o JsonString(Tail(s))

JsonQuote(s) == "\"" \o JsonString(s) \o "\""

RECURSIVE JsonNames(_, _, _)
\* A JSON array of names; a name that is undefined is written null.
JsonNames(names, i, acc) ==
  IF i > Len(names) THEN acc
  ELSE JsonNames(names, i + 1,
         acc \o (IF i > 1 THEN "," ELSE "")
             \o (IF names[i] = UndefinedName THEN "null" ELSE JsonQuote(names[i])))

RECURSIVE JSONstringify(_)
RECURSIVE JsonElements(_, _, _)

\* A JSON array of values; an element that is undefined is written null.
JsonElements(elements, i, acc) ==
  IF i > Len(elements) THEN acc
  ELSE JsonElements(elements, i + 1,
         acc \o (IF i > 1 THEN "," ELSE "")
             \o (IF IsUndefined(elements[i]) THEN "null" ELSE JSONstringify(elements[i])))

\* The properties are written in the order the constructor set them; a
\* property whose value is undefined or a function is left out.
JSONstringify(v) ==
  CASE v.type = "NUMBER" -> "{\"type\":\"NUMBER\",\"value\":" \o NumToStr(v.value) \o "}"
    [] v.type = "STRING" -> "{\"type\":\"STRING\",\"value\":" \o JsonQuote(v.value) \o "}"
    [] v.type = "BOOL" ->
         "{\"type\":\"BOOL\",\"value\":" \o (IF v.value THEN "true" ELSE "false") \o "}"
    [] v.type = "NULL" -> "{\"type\":\"NULL\"}"
    [] v.type = "SYMBOL" ->
         IF v.name = UndefinedName THEN "{\"type\":\"SYMBOL\"}"
         ELSE "{\"type\":\"SYMBOL\",\"name\":" \o JsonQuote(v.name) \o "}"
    [] v.type = "LIST" ->
         "{\"type\":\"LIST\",\"elements\":[" \o JsonElements(v.elements, 1, "") \o "]}"
    [] v.type = "FUNC" ->
         "{\"type\":\"FUNC\",\"params\":[" \o JsonNames(v.params, 1, "")
           \o "],\"body\":" \o JSONstringify(v.body) \o "}"
    [] v.type = "PRIMITIVE" -> "{\"type\":\"PRIMITIVE\"}"

(***************************************************************************)
(* The editor state the host capability interface works on: the record h   *)
(* holds stateRef.current's buffers, activeBufferId and message.  A        *)
(* Buffer's optional readOnly is FALSE when the source leaves it unset.    *)
(***************************************************************************)
Buffer(id, name, content, cursorPosition, mode, isModified, readOnly) ==
  [id |-> id, name |-> name, content |-> content, cursorPosition |-> cursorPosition,
   mode |-> mode, isModified |-> isModified, readOnly |-> readOnly]

RECURSIVE FindIndexById(_, _, _)
\* bufs.findIndex(b => b.id === id), searched from the 0-based index i.
FindIndexById(bufs, id, i) ==
  IF i >= Len(bufs) THEN -1
  ELSE IF bufs[i + 1].id = id THEN i
  ELSE FindIndexById(bufs, id, i + 1)

RECURSIVE FindIndexByName(_, _, _)
\* The index of bufs.find(b => b.name === name), or -1.
FindIndexByName(bufs, name, i) ==
  IF i >= Len(bufs) THEN -1
  ELSE IF bufs[i + 1].name = name THEN i
  ELSE FindIndexByName(bufs, name, i + 1)

\* bufs.filter(b => b.id !== id)
FilterOutId(bufs, id) == SelectSeq(bufs, LAMBDA b : b.id # id)

apiMessage(h, msg) == [h EXCEPT !.message = msg]

\* apiInsert that marks every buffer modified.
apiInsertMarksAll(h, text) ==
  LET bufIdx == FindIndexById(h.buffers, h.activeBufferId, 0)
  IN IF bufIdx = -1 THEN h
     ELSE LET buf == h.buffers[bufIdx + 1]
              before == Slice(buf.content, 0, buf.cursorPosition)
              after == SliceFrom(buf.content, buf.cursorPosition)
              marked == [i \in 1..Len(h.buffers) |-> [h.buffers[i] EXCEPT !.isModified = TRUE]]
          IN [h EXCEPT !.buffers =
                [marked EXCEPT ![bufIdx + 1] =
                   [buf EXCEPT !.content = before \o text \o after,
                               !.cursorPosition = buf.cursorPosition + Len(text),
                               !.isModified = TRUE]]]

\* apiInsert with the cursor left where it was.
apiInsertCursorStays(h, text) ==
  LET bufIdx == FindIndexById(h.buffers, h.activeBufferId, 0)
  IN IF bufIdx = -1 THEN h
     ELSE LET buf == h.buffers[bufIdx + 1]
              before == Slice(buf.content, 0, buf.cursorPosition)
              after == SliceFrom(buf.content, buf.cursorPosition)
          IN [h EXCEPT !.buffers[bufIdx + 1] =
                [buf EXCEPT !.content = before \o text \o after, !.isModified = TRUE]]

apiInsert(h, text) ==
  LET bufIdx == FindIndexById(h.buffers, h.activeBufferId, 0)
  IN IF bufIdx = -1 THEN h
     ELSE LET buf == h.buffers[bufIdx + 1]
              before == Slice(buf.content, 0, buf.cursorPosition)
              after == SliceFrom(buf.content, buf.cursorPosition)
          IN [h EXCEPT !.buffers[bufIdx + 1] =
                [buf EXCEPT !.content = before \o text \o after,
                            !.cursorPosition = buf.cursorPosition + Len(text),
                            !.isModified = TRUE]]

apiGetBufferContent(h) ==
  LET idx == FindIndexById(h.buffers, h.activeBufferId, 0)
  IN IF idx = -1 THEN "" ELSE h.buffers[idx + 1].content

apiGetCursor(h) ==
  LET idx == FindIndexById(h.buffers, h.activeBufferId, 0)
  IN IF idx = -1 THEN 0 ELSE h.buffers[idx + 1].cursorPosition

\* apiSetCursor without the clamp.
apiSetCursorUnclamped(h, pos) ==
  LET idx == FindIndexById(h.buffers, h.activeBufferId, 0)
  IN IF idx = -1 THEN h ELSE [h EXCEPT !.buffers[idx + 1].cursorPosition = pos]

apiSetCursor(h, pos) ==
  LET idx == FindIndexById(h.buffers, h.activeBufferId, 0)
  IN IF idx = -1 THEN h
     ELSE [h EXCEPT !.buffers[idx + 1].cursorPosition =
             Max(0, Min(pos, Len(h.buffers[idx + 1].content)))]

apiSwitchBuffer(h, name) ==
  LET existing == FindIndexByName(h.buffers, name, 0)
  IN IF existing # -1
     THEN [h EXCEPT !.activeBufferId = h.buffers[existing + 1].id]
     ELSE [h EXCEPT !.buffers = Append(h.buffers,
                        Buffer(name, name, "", 0, "Fundamental", FALSE, FALSE)),
                    !.activeBufferId = name]

apiCurrentBufferName(h) ==
  LET idx == FindIndexById(h.buffers, h.activeBufferId, 0)
  IN IF idx = -1 THEN "" ELSE h.buffers[idx + 1].name

\* Returns [h, err]: reading s.buffers[0].id throws when the filter has
\* removed every buffer.
apiKillBuffer(h, name) ==
  IF Len(h.buffers) <= 1 THEN [h |-> h, err |-> ""]
  ELSE LET found == FindIndexByName(h.buffers, name, 0)
       IN IF found = -1 \/ h.buffers[found + 1].id = ""
          THEN [h |-> h, err |-> ""]
          ELSE LET killId == h.buffers[found + 1].id
                   rest == FilterOutId(h.buffers, killId)
               IN IF h.activeBufferId # killId
                  THEN [h |-> [h EXCEPT !.buffers = rest], err |-> ""]
                  ELSE IF Len(rest) = 0
                  THEN [h |-> [h EXCEPT !.buffers = rest], err |-> TypeErrorReading("id")]
                  ELSE [h |-> [h EXCEPT !.buffers = rest, !.activeBufferId = rest[1].id],
                        err |-> ""]

(***************************************************************************)
(* Environments.  A chain of LispEnv objects is a sequence of their vars   *)
(* maps, the global environment first and the current one last: outer of   *)
(* envs[k] is envs[k - 1].  A Function value captures no environment, so   *)
(* every chain the evaluator builds is such a stack.                       *)
(***************************************************************************)
EmptyVars == [n \in {} |-> Undefined]

\* Map.prototype.set
MapSet(m, k, v) == [n \in DOMAIN m \cup {k} |-> IF n = k THEN v ELSE m[n]]

\* The text a template literal writes for a name.
TemplateText(name) == IF name = UndefinedName THEN "undefined" ELSE name

\* get(name) that looks from the global environment inwards.
LispEnvGetOutermost(envs, k, name) ==
  LET ks == {j \in 1..k : name \in DOMAIN envs[j]}
  IN IF ks = {} THEN [val |-> Undefined, err |-> "Void variable: " \o TemplateText(name)]
     ELSE [val |-> envs[CHOOSE j \in ks : \A i \in ks : j <= i][name], err |-> ""]

RECURSIVE LispEnvGet(_, _, _)
\* get(name) of the environment envs[k]: [val, err].
LispEnvGet(envs, k, name) ==
  IF name \in DOMAIN envs[k] THEN [val |-> envs[k][name], err |-> ""]
  ELSE IF k > 1 THEN LispEnvGet(envs, k - 1, name)
  ELSE [val |-> Undefined, err |-> "Void variable: " \o TemplateText(name)]

\* set(name, val) that updates the innermost environment that has the name.
LispEnvSetNearest(envs, name, val) ==
  LET ks == {j \in 1..Len(envs) : name \in DOMAIN envs[j]}
      k == IF ks = {} THEN Len(envs) ELSE CHOOSE j \in ks : \A i \in ks : i <= j
  IN [envs EXCEPT ![k] = MapSet(@, name, val)]

\* set(name, val) of the current environment.
LispEnvSet(envs, name, val) == [envs EXCEPT ![Len(envs)] = MapSet(@, name, val)]

\* define(name, val) of the current environment.
LispEnvDefine(envs, name, val) == [envs EXCEPT ![Len(envs)] = MapSet(@, name, val)]

\* new LispEnv(env.api, env): the chain of a new environment whose outer is
\* the current environment of envs.
NewLispEnv(envs) == Append(envs, EmptyVars)

\* The chain envs of the caller once the child environment, the last of
\* the chain child, is discarded: the environments the two chains share are
\* the same objects.
Outer(envs, child) ==
  [k \in 1..Len(envs) |-> IF k < Len(child) THEN child[k] ELSE envs[k]]

(***************************************************************************)
(* The primitive library.  CallPrimitive(fn, args, h) is the call          *)
(* fn(args, env) of the primitive registered under the name fn: it returns *)
(* [val, h, err].  The arithmetic and comparison of values that are not    *)
(* numbers, and buffer names and offsets that are not a string or a        *)
(* number, are JavaScript coercions outside the model: the CASE            *)
(* expressions below have no arm for them.                                 *)
(***************************************************************************)
PrimitiveNames ==
  {"+", "-", "*", "/", "=", "<", ">", "list", "cons", "car", "cdr", "message", "insert",
   "buffer-name", "current-buffer", "switch-to-buffer", "kill-buffer", "point",
   "point-min", "point-max", "goto-char"}

\* The vars of the environment createGlobalEnv returns.
createGlobalEnv == [n \in PrimitiveNames |-> [type |-> "PRIMITIVE", fn |-> n]]

PrimRet(val, h) == [val |-> val, h |-> h, err |-> ""]
PrimThrow(msg, h) == [val |-> Undefined, h |-> h, err |-> msg]

\* args[i] of JavaScript, 0-based.
Arg(args, i) == ElemAt(args, i)

AllNumbers(args) == \A i \in 1..Len(args) : args[i].type = "NUMBER"
AnyUndefined(args) == \E i \in 1..Len(args) : IsUndefined(args[i])

RECURSIVE SumValues(_, _)
SumValues(args, i) == IF i > Len(args) THEN 0 ELSE args[i].value + SumValues(args, i + 1)

RECURSIVE ProductValues(_, _)
ProductValues(args, i) ==
  IF i > Len(args) THEN 1 ELSE args[i].value * ProductValues(args, i + 1)

\* a / b of two integral doubles with an integral quotient.
Quotient(a, b) ==
  CASE b # 0 /\ a % (IF b < 0 THEN -b ELSE b) = 0 ->
    IF b < 0 THEN 0 - (a \div (0 - b)) ELSE a \div b

HasValue(v) == v.type \in {"NUMBER", "STRING", "BOOL"}

\* a.value === b.value
StrictEqualValue(a, b) ==
  IF HasValue(a) /\ HasValue(b) THEN a.type = b.type /\ a.value = b.value
  ELSE ~HasValue(a) /\ ~HasValue(b)

\* String(a.value) as join writes it: nothing for undefined.
InsertText(a) ==
  IF a.type = "STRING" THEN a.value
  ELSE IF a.type = "NUMBER" THEN NumToStr(a.value)
  ELSE IF a.type = "BOOL" THEN (IF a.value THEN "true" ELSE "false")
  ELSE ""

RECURSIVE InsertJoin(_, _)
\* args.map(a => a.value).join('')
InsertJoin(args, i) ==
  IF i > Len(args) THEN "" ELSE InsertText(args[i]) \o InsertJoin(args, i + 1)

RECURSIVE MessageJoin(_, _)
\* args.map(a => a.type === 'STRING' ? a.value : JSON.stringify(a)).join(' ')
MessageJoin(args, i) ==
  IF i > Len(args) THEN ""
  ELSE (IF i > 1 THEN " " ELSE "")
       \o (IF args[i].type = "STRING" THEN args[i].value ELSE JSONstringify(args[i]))
       \o MessageJoin(args, i + 1)

\* The primitives that read args[0].value and args[1].value.
Binary(fn, args, h) ==
  IF IsUndefined(Arg(args, 0)) \/ IsUndefined(Arg(args, 1))
  THEN PrimThrow(TypeErrorReading("value"), h)
  ELSE LET a == args[1]
           b == args[2]
       IN CASE fn = "=" -> PrimRet(mkBool(StrictEqualValue(a, b)), h)
            [] fn = "/" /\ AllNumbers(<<a, b>>) -> PrimRet(mkNum(Quotient(a.value, b.value)), h)
            [] fn = "<" /\ AllNumbers(<<a, b>>) -> PrimRet(mkBool(a.value < b.value), h)
            [] fn = ">" /\ AllNumbers(<<a, b>>) -> PrimRet(mkBool(a.value > b.value), h)

CallPrimitive(fn, args, h) ==
  CASE fn = "+" ->
         IF AnyUndefined(args) THEN PrimThrow(TypeErrorReading("value"), h)
         ELSE (CASE AllNumbers(args) -> PrimRet(mkNum(SumValues(args, 1)), h))
    [] fn = "-" ->
         IF AnyUndefined(args) \/ Len(args) = 0 THEN PrimThrow(TypeErrorReading("value"), h)
         ELSE (CASE AllNumbers(args) ->
                 PrimRet(mkNum(args[1].value - SumValues(args, 2)), h))
    [] fn = "*" ->
         IF AnyUndefined(args) THEN PrimThrow(TypeErrorReading("value"), h)
         ELSE (CASE AllNumbers(args) -> PrimRet(mkNum(ProductValues(args, 1)), h))
    [] fn \in {"/", "=", "<", ">"} -> Binary(fn, args, h)
    [] fn = "list" -> PrimRet(mkList(args), h)
    [] fn = "cons" ->
         IF IsUndefined(Arg(args, 1)) THEN PrimThrow(TypeErrorReading("elements"), h)
         ELSE PrimRet(mkList(<<args[1]>> \o
                        (IF args[2].type = "LIST" THEN args[2].elements ELSE <<>>)), h)
    [] fn = "car" ->
         IF IsUndefined(Arg(args, 0)) THEN PrimThrow(TypeErrorReading("elements"), h)
         ELSE IF args[1].type = "LIST" THEN PrimRet(ElemAt(args[1].elements, 0), h)
         ELSE PrimRet(mkNull, h)
    [] fn = "cdr" ->
         IF IsUndefined(Arg(args, 0)) THEN PrimThrow(TypeErrorReading("elements"), h)
         ELSE IF args[1].type = "LIST"
         THEN PrimRet(mkList(SubSeq(args[1].elements, 2, Len(args[1].elements))), h)
         ELSE PrimRet(mkNull, h)
    [] fn = "message" ->
         IF AnyUndefined(args) THEN PrimThrow(TypeErrorReading("type"), h)
         ELSE LET msg == MessageJoin(args, 1)
              IN PrimRet(mkStr(msg), apiMessage(h, msg))
    [] fn = "insert" ->
         IF AnyUndefined(args) THEN PrimThrow(TypeErrorReading("value"), h)
         ELSE PrimRet(mkNull, apiInsert(h, InsertJoin(args, 1)))
    [] fn \in {"buffer-name", "current-buffer"} -> PrimRet(mkStr(apiCurrentBufferName(h)), h)
    [] fn = "switch-to-buffer" ->
         IF IsUndefined(Arg(args, 0)) THEN PrimThrow(TypeErrorReading("value"), h)
         ELSE (CASE args[1].type = "STRING" ->
                 PrimRet(mkStr(args[1].value), apiSwitchBuffer(h, args[1].value)))
    [] fn = "kill-buffer" ->
         IF IsUndefined(Arg(args, 0)) THEN PrimThrow(TypeErrorReading("value"), h)
         ELSE (CASE args[1].type = "STRING" ->
                 LET k == apiKillBuffer(h, args[1].value)
                 IN IF k.err # "" THEN PrimThrow(k.err, k.h) ELSE PrimRet(mkNull, k.h))
    [] fn = "point" -> PrimRet(mkNum(apiGetCursor(h)), h)
    [] fn = "point-min" -> PrimRet(mkNum(0), h)
    [] fn = "point-max" -> PrimRet(mkNum(Len(apiGetBufferContent(h))), h)
    [] fn = "goto-char" ->
         IF IsUndefined(Arg(args, 0)) THEN PrimThrow(TypeErrorReading("value"), h)
         ELSE (CASE args[1].type = "NUMBER" ->
                 PrimRet(args[1], apiSetCursor(h, args[1].value)))

(***************************************************************************)
(* The evaluator.  evalLisp(expr, envs, h, d) is the call                  *)
(* evalLisp(expr, env) with env the current environment of the chain envs, *)
(* the editor state h, and d the number of evalLisp calls it is nested in. *)
(* It returns [val, envs, h, err]: the value, the chain and the editor     *)
(* state as the call left them (also when it threw), and the exception's   *)
(* message.                                                                *)
(***************************************************************************)
Ret(val, envs, h) == [val |-> val, envs |-> envs, h |-> h, err |-> ""]
Throw(msg, envs, h) == [val |-> Undefined, envs |-> envs, h |-> h, err |-> msg]

SpecialForms == {"quote", "setq", "if", "defun", "progn", "let", "interactive"}

\* The activation record of a call: params.forEach((p, i) =>
\* activationRecord.define(p, args[i] || mkNull())).
RECURSIVE BindParams(_, _, _, _)
BindParams(frame, params, args, i) ==
  IF i > Len(params) THEN frame
  ELSE BindParams(
         MapSet(frame, params[i],
                IF IsUndefined(ElemAt(args, i - 1)) THEN mkNull ELSE args[i]),
         params, args, i + 1)

\* An activation record whose outer environment is the global one.
ActivationChainGlobal(envs, params, args) ==
  <<envs[1], BindParams(EmptyVars, params, args, 1)>>

\* The chain of the activation record of a call made in the chain envs.
ActivationChain(envs, params, args) ==
  [NewLispEnv(envs) EXCEPT ![Len(envs) + 1] = BindParams(@, params, args, 1)]

RECURSIVE evalLisp(_, _, _, _)
RECURSIVE EvalEach(_, _, _, _, _, _)
RECURSIVE SetqLoop(_, _, _, _, _, _)
RECURSIVE SequenceLoop(_, _, _, _, _, _)
RECURSIVE LetBindings(_, _, _, _, _, _)
RECURSIVE LetBindingsSequential(_, _, _, _, _, _)

\* elements.slice(1).map(e => evalLisp(e, env)): val is the sequence of the
\* values, from the 1-based element i with the values acc so far.
EvalEach(elements, i, acc, envs, h, d) ==
  IF i > Len(elements) THEN Ret(acc, envs, h)
  ELSE LET r == evalLisp(elements[i], envs, h, d + 1)
       IN IF r.err # "" THEN r
          ELSE EvalEach(elements, i + 1, Append(acc, r.val), r.envs, r.h, d)

\* The for loop of setq, at the 0-based index i.
SetqLoop(elements, i, result, envs, h, d) ==
  IF i >= Len(elements) THEN Ret(result, envs, h)
  ELSE LET sym == elements[i + 1]
       IN IF sym.type # "SYMBOL" THEN Throw("setq expects symbols", envs, h)
          ELSE LET r == evalLisp(ElemAt(elements, i + 1), envs, h, d + 1)
               IN IF r.err # "" THEN r
                  ELSE SetqLoop(elements, i + 2, r.val,
                                LispEnvSet(r.envs, sym.name, r.val), r.h, d)

\* The for loop of progn and of the body of let, at the 0-based index i.
SequenceLoop(elements, i, result, envs, h, d) ==
  IF i >= Len(elements) THEN Ret(result, envs, h)
  ELSE LET r == evalLisp(elements[i + 1], envs, h, d + 1)
       IN IF r.err # "" THEN r
          ELSE SequenceLoop(elements, i + 1, r.val, r.envs, r.h, d)

\* bindings.forEach of let, at the 1-based binding i: val is the vars of
\* newEnv; each initializer is evaluated in the chain envs.
\* bindings.forEach of a let whose initializers see the earlier bindings.
LetBindingsSequential(bindings, i, newVars, envs, h, d) ==
  IF i > Len(bindings) THEN Ret(newVars, envs, h)
  ELSE LET b == bindings[i]
           r == evalLisp(ElemAt(b.elements, 1), Append(envs, newVars), h, d + 1)
       IN IF r.err # "" THEN [r EXCEPT !.envs = SubSeq(r.envs, 1, Len(envs))]
          ELSE LetBindingsSequential(bindings, i + 1,
                 MapSet(r.envs[Len(envs) + 1], NameOf(b.elements[1]), r.val),
                 SubSeq(r.envs, 1, Len(envs)), r.h, d)

LetBindings(bindings, i, newVars, envs, h, d) ==
  IF i > Len(bindings) THEN Ret(newVars, envs, h)
  ELSE LET b == bindings[i]
       IN IF b.type = "LIST"
          THEN IF IsUndefined(ElemAt(b.elements, 0))
               THEN Throw(TypeErrorReading("name"), envs, h)
               ELSE LET r == evalLisp(ElemAt(b.elements, 1), envs, h, d + 1)
                    IN IF r.err # "" THEN r
                       ELSE LetBindings(bindings, i + 1,
                              MapSet(newVars, NameOf(b.elements[1]), r.val),
                              r.envs, r.h, d)
          ELSE IF b.type = "SYMBOL"
          THEN LetBindings(bindings, i + 1, MapSet(newVars, b.name, mkNull), envs, h, d)
          ELSE LetBindings(bindings, i + 1, newVars, envs, h, d)

evalSetq(elements, envs, h, d) == SetqLoop(elements, 1, mkNull, envs, h, d)

evalIf(elements, envs, h, d) ==
  LET cond == evalLisp(ElemAt(elements, 1), envs, h, d + 1)
  IN IF cond.err # "" THEN cond
     ELSE IF IsUndefined(cond.val) THEN Throw(TypeErrorReading("type"), cond.envs, cond.h)
     ELSE IF isTrue(cond.val) THEN evalLisp(ElemAt(elements, 2), cond.envs, cond.h, d + 1)
     ELSE IF Len(elements) > 3 THEN evalLisp(elements[4], cond.envs, cond.h, d + 1)
     ELSE Ret(mkNull, cond.envs, cond.h)

\* defun that binds the function in the global environment.
evalDefunGlobal(elements, envs, h, d) ==
  LET name == NameOf(elements[2])
      params == [k \in 1..Len(elements[3].elements) |-> NameOf(elements[3].elements[k])]
      body == mkList(<<mkSym("progn")>> \o SubSeq(elements, 4, Len(elements)))
      fn == [type |-> "FUNC", params |-> params, body |-> body]
  IN Ret(mkSym(name), [envs EXCEPT ![1] = MapSet(@, name, fn)], h)

evalDefun(elements, envs, h, d) ==
  IF IsUndefined(ElemAt(elements, 1)) THEN Throw(TypeErrorReading("name"), envs, h)
  ELSE IF IsUndefined(ElemAt(elements, 2)) THEN Throw(TypeErrorReading("elements"), envs, h)
  ELSE IF elements[3].type # "LIST" THEN Throw(TypeErrorReading("map"), envs, h)
  ELSE LET name == NameOf(elements[2])
           params == [k \in 1..Len(elements[3].elements) |-> NameOf(elements[3].elements[k])]
           body == mkList(<<mkSym("progn")>> \o SubSeq(elements, 4, Len(elements)))
           fn == [type |-> "FUNC", params |-> params, body |-> body]
       IN Ret(mkSym(name), LispEnvDefine(envs, name, fn), h)

evalProgn(elements, envs, h, d) == SequenceLoop(elements, 1, mkNull, envs, h, d)

evalLet(elements, envs, h, d) ==
  IF IsUndefined(ElemAt(elements, 1)) THEN Throw(TypeErrorReading("elements"), envs, h)
  ELSE IF elements[2].type # "LIST" THEN Throw(TypeErrorReading("forEach"), envs, h)
  ELSE LET b == LetBindings(elements[2].elements, 1, EmptyVars, envs, h, d)
       IN IF b.err # "" THEN b
          ELSE LET newEnv == [NewLispEnv(b.envs) EXCEPT ![Len(b.envs) + 1] = b.val]
                   r == SequenceLoop(elements, 2, mkNull, newEnv, b.h, d)
               IN [r EXCEPT !.envs = Outer(b.envs, r.envs)]

\* The function application that looks at the head's value before it
\* evaluates the arguments.
evalApplyChecksFirst(elements, envs, h, d) ==
  LET head == elements[1]
      fn == evalLisp(head, envs, h, d + 1)
  IN IF fn.err # "" THEN fn
     ELSE IF IsUndefined(fn.val) THEN Throw(TypeErrorReading("type"), fn.envs, fn.h)
     ELSE IF fn.val.type \notin {"PRIMITIVE", "FUNC"}
     THEN Throw("Invalid function call: " \o JSONstringify(head), fn.envs, fn.h)
     ELSE LET args == EvalEach(elements, 2, <<>>, fn.envs, fn.h, d)
          IN IF args.err # "" THEN args
             ELSE IF fn.val.type = "PRIMITIVE"
             THEN LET p == CallPrimitive(fn.val.fn, args.val, args.h)
                  IN [val |-> p.val, envs |-> args.envs, h |-> p.h, err |-> p.err]
             ELSE LET activationRecord == ActivationChain(args.envs, fn.val.params, args.val)
                      r == evalLisp(fn.val.body, activationRecord, args.h, d + 1)
                  IN [r EXCEPT !.envs = Outer(args.envs, r.envs)]

\* The function application of evalLisp, lines 230-246.
evalApply(elements, envs, h, d) ==
  LET head == elements[1]
      fn == evalLisp(head, envs, h, d + 1)
  IN IF fn.err # "" THEN fn
     ELSE LET args == EvalEach(elements, 2, <<>>, fn.envs, fn.h, d)
          IN IF args.err # "" THEN args
             ELSE IF IsUndefined(fn.val)
             THEN Throw(TypeErrorReading("type"), args.envs, args.h)
             ELSE IF fn.val.type = "PRIMITIVE"
             THEN LET p == CallPrimitive(fn.val.fn, args.val, args.h)
                  IN [val |-> p.val, envs |-> args.envs, h |-> p.h, err |-> p.err]
             ELSE IF fn.val.type = "FUNC"
             THEN LET activationRecord == ActivationChain(args.envs, fn.val.params, args.val)
                      r == evalLisp(fn.val.body, activationRecord, args.h, d + 1)
                  IN [r EXCEPT !.envs = Outer(args.envs, r.envs)]
             ELSE Throw("Invalid function call: " \o JSONstringify(head), args.envs, args.h)

evalLisp(expr, envs, h, d) ==
  IF d > MaxStack THEN Throw("Maximum call stack size exceeded", envs, h)
  ELSE IF IsUndefined(expr) THEN Throw(TypeErrorReading("type"), envs, h)
  ELSE IF expr.type \in {"NUMBER", "STRING", "BOOL", "NULL"} THEN Ret(expr, envs, h)
  ELSE IF expr.type = "SYMBOL"
    THEN LET g == LispEnvGet(envs, Len(envs), expr.name)
         IN IF g.err # "" THEN Throw(g.err, envs, h) ELSE Ret(g.val, envs, h)
  ELSE IF expr.type = "LIST"
    THEN LET elements == expr.elements
         IN IF Len(elements) = 0 THEN Ret(mkNull, envs, h)
            ELSE IF elements[1].type = "SYMBOL" /\ elements[1].name \in SpecialForms
            THEN CASE elements[1].name = "quote" -> Ret(ElemAt(elements, 1), envs, h)
                   [] elements[1].name = "setq" -> evalSetq(elements, envs, h, d)
                   [] elements[1].name = "if" -> evalIf(elements, envs, h, d)
                   [] elements[1].name = "defun" -> evalDefun(elements, envs, h, d)
                   [] elements[1].name = "progn" -> evalProgn(elements, envs, h, d)
                   [] elements[1].name = "let" -> evalLet(elements, envs, h, d)
                   [] elements[1].name = "interactive" -> Ret(mkNull, envs, h)
            ELSE evalApply(elements, envs, h, d)
  ELSE Ret(expr, envs, h)

(***************************************************************************)
(* The entry point.  evalSexp(code, vars0, h) runs the try block of        *)
(* evalSexp with the global environment's bindings vars0 and returns       *)
(* [h, vars, ok, val, error, uncaught]: the editor state after the echo,   *)
(* the global bindings, whether the try block completed, the value         *)
(* evaluated or the message of the exception caught, and the message of an *)
(* exception that leaves evalSexp ("" when none does).                     *)
(***************************************************************************)
echo(h, msg) == [h EXCEPT !.message = msg]

\* The catch clause of evalSexp.
Caught(h, vars1, msg) ==
  [h |-> echo(h, "Lisp Error: " \o msg), vars |-> vars1, ok |-> FALSE,
   val |-> Undefined, error |-> msg, uncaught |-> ""]

\* evalSexp with a catch clause that restores the state the evaluation
\* started from.
evalSexpRestores(code, vars0, h) ==
  LET ast == parse(code)
  IN IF ast.err # "" THEN Caught(h, vars0, ast.err)
     ELSE LET result == evalLisp(ast.val, <<vars0>>, h, 1)
          IN IF result.err # "" THEN Caught(h, vars0, result.err)
             ELSE LET text == printLisp(result.val)
                  IN IF text.err # "" THEN Caught(h, vars0, text.err)
                     ELSE [h |-> echo(result.h, text.text), vars |-> result.envs[1],
                           ok |-> TRUE, val |-> result.val, error |-> "",
                           uncaught |-> ""]

\* evalSexp with printLisp called after the try block instead of inside it.
evalSexpPrintsOutside(code, vars0, h) ==
  LET ast == parse(code)
  IN IF ast.err # "" THEN Caught(h, vars0, ast.err)
     ELSE LET result == evalLisp(ast.val, <<vars0>>, h, 1)
          IN IF result.err # "" THEN Caught(result.h, result.envs[1], result.err)
             ELSE LET text == printLisp(result.val)
                  IN IF text.err # ""
                     THEN [h |-> result.h, vars |-> result.envs[1], ok |-> FALSE,
                           val |-> Undefined, error |-> "", uncaught |-> text.err]
                     ELSE [h |-> echo(result.h, text.text), vars |-> result.envs[1],
                           ok |-> TRUE, val |-> result.val, error |-> "",
                           uncaught |-> ""]

evalSexp(code, vars0, h) ==
  LET ast == parse(code)
  IN IF ast.err # "" THEN Caught(h, vars0, ast.err)
     ELSE LET result == evalLisp(ast.val, <<vars0>>, h, 1)
          IN IF result.err # "" THEN Caught(result.h, result.envs[1], result.err)
             ELSE LET text == printLisp(result.val)
                  IN IF text.err # "" THEN Caught(result.h, result.envs[1], text.err)
                     ELSE [h |-> echo(result.h, text.text), vars |-> result.envs[1],
                           ok |-> TRUE, val |-> result.val, error |-> "",
                           uncaught |-> ""]

(***************************************************************************)
(* The initial state: the editor state App constructs and the global       *)
(* environment createGlobalEnv returns.                                    *)
(***************************************************************************)
INITIAL_BUFFER_ID == "scratch"

WELCOME_MESSAGE ==
  ";; This buffer is for text that is not saved, and for Lisp evaluation.\n"
  \o ";; To create a file, visit it with C-x C-f and enter text in your file's buffer.\n"
  \o "\n"
  \o "Welcome to React Emacs v1.0\n"
  \o "===========================\n"
  \o "\n"
  \o "Keybindings:\n"
  \o "C-x C-f    Find File (Create/Open Buffer)\n"
  \o "C-x C-s    Save Buffer (Mock)\n"
  \o "C-x b      Switch Buffer\n"
  \o "C-x k      Kill Buffer\n"
  \o "M-x        Execute Command\n"
  \o "M-:        Eval Expression\n"
  \o "C-x C-e    Eval Last S-expression\n"
  \o "C-g        Cancel / Quit\n"
  \o "\n"
  \o "AI Commands:\n"
  \o "M-x ask-gemini      Ask Gemini AI a question\n"
  \o "M-x gemini-explain  Explain the code in current buffer\n"
  \o "\n"
  \o "Lisp Scratchpad:\n"
  \o "Try evaluating these expressions with C-x C-e (place cursor at end of line):\n"
  \o "(+ 2 2)\n"
  \o "(message \"Hello from Emacs!\")\n"
  \o "(insert \" This text was inserted by Lisp.\")\n"
  \o "(progn (insert \"A\") (insert \"B\") (insert \"C\"))\n"

INITIAL_BUFFERS ==
  <<Buffer(INITIAL_BUFFER_ID, "*scratch*", WELCOME_MESSAGE, 0, "Lisp Interaction", FALSE, FALSE),
    Buffer("messages", "*Messages*", "React Emacs initialization complete.\n", 0,
           "Fundamental", FALSE, TRUE)>>

\* The editor state as the record the host capability interface works on.
Host == [buffers |-> buffers, activeBufferId |-> activeBufferId, message |-> message]

\* The active buffer, when activeBufferId names one.
ActiveIndex(h) == FindIndexById(h.buffers, h.activeBufferId, 0) + 1
ActiveBuffer(h) == h.buffers[ActiveIndex(h)]

RECURSIVE TotalContent(_, _)
\* The characters of all buffers, from the 1-based buffer i.
TotalContent(bufs, i) ==
  IF i > Len(bufs) THEN 0 ELSE Len(bufs[i].content) + TotalContent(bufs, i + 1)

(***************************************************************************)
(* The editor's commands and key handlers.  They work on the record s:     *)
(* stateRef.current with, as vars, the bindings of the global environment. *)
(* A handler returns [s, err, evaluated]: the state it leaves, the message *)
(* of an exception that leaves it ("" when none does), and the outcomes of *)
(* the evalSexp calls it made, in order.  A handler that awaits the         *)
(* generative-text service ends where it awaits: it leaves a request in    *)
(* s.pending, and the rest of it is the request's completion.              *)
(***************************************************************************)
Done(s) == [s |-> s, err |-> "", evaluated |-> <<>>]

\* activeBuffer of the last render, which has a buffer to show.
RenderedBuffer(s) ==
  LET idx == FindIndexById(s.buffers, s.activeBufferId, 0)
  IN IF idx # -1 THEN s.buffers[idx + 1] ELSE s.buffers[1]

\* updateActiveBuffer(updates): the fields of updates replace those of the
\* active buffer.
updateActiveBuffer(s, updates) ==
  LET idx == FindIndexById(s.buffers, s.activeBufferId, 0)
  IN IF idx # -1 THEN [s EXCEPT !.buffers[idx + 1] = updates @@ s.buffers[idx + 1]] ELSE s

switchBuffer(s, bufferId) ==
  [s EXCEPT !.activeBufferId = bufferId,
            !.message = "Switched to buffer " \o bufferId,
            !.editorMode = "NORMAL",
            !.minibuffer = [type |-> "NONE", prompt |-> "", input |-> ""]]

createBuffer(s, name) ==
  LET existing == FindIndexByName(s.buffers, name, 0)
  IN IF existing # -1 THEN switchBuffer(s, s.buffers[existing + 1].id)
     ELSE [s EXCEPT !.buffers = Append(s.buffers,
                        Buffer(name, name, "", 0, "Fundamental", FALSE, FALSE)),
                    !.activeBufferId = name,
                    !.editorMode = "NORMAL",
                    !.message = "(New file)",
                    !.minibuffer = [type |-> "NONE", prompt |-> "", input |-> ""]]

\* killBuffer(): the command of C-x k and M-x kill-buffer.  next is the
\* 0-based index of nextBuffer, which is undefined when no buffer has the
\* active id.
killBuffer(s) ==
  IF Len(s.buffers) <= 1 THEN Done(echo(s, "Cannot kill the last buffer"))
  ELSE LET idx == FindIndexById(s.buffers, s.activeBufferId, 0)
           next == IF idx = 0 THEN 1 ELSE idx - 1
           rest == FilterOutId(s.buffers, s.activeBufferId)
       IN IF next < 0
          THEN [Done([s EXCEPT !.buffers = rest]) EXCEPT !.err = TypeErrorReading("id")]
          ELSE Done([s EXCEPT !.buffers = rest,
                              !.activeBufferId = s.buffers[next + 1].id,
                              !.message = "Killed buffer",
                              !.editorMode = "NORMAL",
                              !.chordStack = ""])

\* evalSexp(code) of App: Merge(r) is the state the call r leaves.
appEvalSexp(s, code) ==
  LET Merge(r) ==
        [s |-> [r.h EXCEPT !.vars = r.vars], err |-> r.uncaught,
         evaluated |-> <<[code |-> code, ok |-> r.ok, val |-> r.val, error |-> r.error]>>]
  IN Merge(evalSexp(code, s.vars, s))

startMinibuffer(s, type, prompt) ==
  [s EXCEPT !.editorMode = "MINIBUFFER",
            !.minibuffer = [type |-> type, prompt |-> prompt, input |-> ""],
            !.chordStack = ""]

\* The request a handler awaits: its kind ("ask" or "explain") and from,
\* the id of the buffer that is active when the request is made (the
\* handler keeps no such record).  The text given to the service is left
\* out: the service answers with any of its outcomes.
Awaited(s, kind) ==
  [s EXCEPT !.pending = Append(@, [kind |-> kind, from |-> s.activeBufferId])]

\* generateText(prompt) for an outcome of the service: the text of the
\* response, "" when the response has none, and the text made of the error
\* when getClient or the service throws.
generateText(outcome) ==
  IF outcome.ok THEN outcome.text ELSE "Error: " \o outcome.error

\* The gemini-explain command up to its await.
geminiExplain(s) ==
  LET thinking == echo(s, "Gemini is thinking...")
      idx == FindIndexById(s.buffers, s.activeBufferId, 0)
  IN IF idx = -1 THEN echo(thinking, "Gemini Error.")
     ELSE Awaited(thinking, "explain")

\* The gemini-explain command from its await on, explanation being what
\* explainCode returned.
geminiExplained(s, explanation) ==
  LET explainBufferId == "*Gemini-Explain*"
      existing == FindIndexById(s.buffers, explainBufferId, 0)
  IN IF existing # -1
     THEN switchBuffer([s EXCEPT !.buffers[existing + 1].content = explanation],
                       explainBufferId)
     ELSE switchBuffer([s EXCEPT !.buffers = Append(@,
                          Buffer(explainBufferId, explainBufferId, explanation, 0,
                                 "Markdown", FALSE, TRUE))],
                       explainBufferId)

\* The GEMINI_PROMPT branch of handleMinibufferCommit from its await on,
\* text being what generateText returned.
geminiAnswered(s, text) == echo(apiInsert(s, text), "Gemini response inserted.")

executeCommand(s, cmdName) ==
  CASE cmdName = "ask-gemini" -> Done(startMinibuffer(s, "GEMINI_PROMPT", "Ask Gemini: "))
    [] cmdName = "gemini-explain" -> Done(geminiExplain(s))
    [] cmdName = "kill-buffer" -> killBuffer(s)
    [] cmdName \notin {"kill-buffer", "ask-gemini", "gemini-explain"} ->
         Done(echo(s, "Command not found: " \o cmdName))

handleMinibufferCommit(s, value) ==
  LET type == s.minibuffer.type
      reset == [s EXCEPT !.minibuffer.type = "NONE", !.editorMode = "NORMAL"]
  IN CASE type = "COMMAND" -> executeCommand(reset, value)
       [] type = "FIND_FILE" -> Done(createBuffer(reset, value))
       [] type = "SWITCH_BUFFER" ->
            LET target == FindIndexByName(reset.buffers, value, 0)
            IN IF target # -1 THEN Done(switchBuffer(reset, reset.buffers[target + 1].id))
               ELSE Done(createBuffer(reset, value))
       [] type = "GEMINI_PROMPT" ->
            Done(Awaited(echo(reset, "Gemini is thinking..."), "ask"))
       [] type = "EVAL" -> appEvalSexp(reset, value)
       [] type \in {"NONE", "YES_NO"} -> Done(reset)

\* The C-x C-e branch with the evaluation made a second time.
evalLastSexpTwice(s, active) ==
  LET sexp == findLastSexp(active.content, active.cursorPosition)
      Again(first) ==
        LET Both(second) == [second EXCEPT !.evaluated = first.evaluated \o second.evaluated]
        IN Both(appEvalSexp(first.s, sexp.text))
  IN IF sexp.found /\ sexp.text # "" THEN Again(appEvalSexp(s, sexp.text))
     ELSE Done(echo(s, "End of file or no sexp found"))

\* The C-x C-e branch of the chord handling: if (sexp) is false for null
\* and for the empty string.
evalLastSexp(s, active) ==
  LET sexp == findLastSexp(active.content, active.cursorPosition)
  IN IF sexp.found /\ sexp.text # "" THEN appEvalSexp(s, sexp.text)
     ELSE Done(echo(s, "End of file or no sexp found"))

\* The chord handling of handleEditorKeyDown, with a buffer rendered.
handleChord(s, key, isCtrl) ==
  LET reset == [s EXCEPT !.editorMode = "NORMAL", !.chordStack = ""]
      active == RenderedBuffer(s)
  IN IF isCtrl /\ key = "f" THEN Done(startMinibuffer(reset, "FIND_FILE", "Find file: "))
     ELSE IF isCtrl /\ key = "s"
       THEN Done(updateActiveBuffer(echo(reset, "Wrote " \o active.name), [isModified |-> FALSE]))
     ELSE IF key = "b"
       THEN Done(startMinibuffer(reset, "SWITCH_BUFFER", "Switch to buffer: "))
     ELSE IF key = "k" THEN killBuffer(reset)
     ELSE IF isCtrl /\ key = "g" THEN Done(echo(reset, "Quit"))
     ELSE IF isCtrl /\ key = "e" THEN evalLastSexp(reset, active)
     ELSE Done(echo(reset, "C-x " \o key \o " is undefined"))

\* moveCursorLine(dir): the cursor goes to the line above (dir = -1) or
\* below, at the column it has or at the end of a shorter line.
moveCursorLine(s, dir) ==
  LET idx == FindIndexById(s.buffers, s.activeBufferId, 0)
      buf == s.buffers[idx + 1]
      content == buf.content
      currentPos == buf.cursorPosition
      lineStart == LastIndexOf(content, "\n", currentPos - 1) + 1
      offset == currentPos - lineStart
      prevLineEnd == lineStart - 1
      prevLineStart == LastIndexOf(content, "\n", prevLineEnd - 1) + 1
      lineEnd == IndexOf(content, "\n", currentPos)
      nextLineStart == lineEnd + 1
      nextLineEnd == IndexOf(content, "\n", nextLineStart)
      actualNextEnd == IF nextLineEnd = -1 THEN Len(content) ELSE nextLineEnd
      MovedTo(newPos) == [s EXCEPT !.buffers[idx + 1].cursorPosition = newPos]
  IN IF idx = -1 THEN s
     ELSE IF dir = -1
       THEN IF lineStart = 0 THEN s
            ELSE MovedTo(prevLineStart + Min(offset, prevLineEnd - prevLineStart))
     ELSE IF lineEnd = -1 THEN s
     ELSE MovedTo(nextLineStart + Min(offset, actualNextEnd - nextLineStart))

handleEditorKeyDown(s, key, isCtrl, isMeta) ==
  IF isMeta /\ key = ":" THEN Done(startMinibuffer(s, "EVAL", "Eval: "))
  ELSE IF isMeta /\ key = "x" THEN Done(startMinibuffer(s, "COMMAND", "M-x "))
  ELSE IF s.editorMode = "WAITING_FOR_CHORD" THEN handleChord(s, key, isCtrl)
  ELSE IF isCtrl
    THEN CASE key = "x" ->
                Done([s EXCEPT !.editorMode = "WAITING_FOR_CHORD", !.chordStack = "C-x"])
           [] key = "g" -> Done(echo(s, "Quit"))
           [] key = "n" -> Done(moveCursorLine(s, 1))
           [] key = "p" -> Done(moveCursorLine(s, -1))
           [] key \notin {"x", "g", "n", "p"} -> Done(s)
  ELSE Done(s)

handleMinibufferKeyDown(s, key, isCtrl) ==
  IF key = "Enter" THEN handleMinibufferCommit(s, s.minibuffer.input)
  ELSE IF isCtrl /\ key = "g"
    THEN Done([echo(s, "Quit") EXCEPT !.editorMode = "NORMAL", !.minibuffer.type = "NONE"])
  ELSE Done(s)

\* The mode, the chord and the minibuffer App starts with; it awaits no
\* request.
InitEditor ==
  /\ editorMode = "NORMAL"
  /\ chordStack = ""
  /\ minibuffer = [type |-> "NONE", prompt |-> "", input |-> ""]
  /\ pending = <<>>

Init ==
  /\ buffers = INITIAL_BUFFERS
  /\ activeBufferId = INITIAL_BUFFER_ID
  /\ message = "For information about GNU Emacs and the GNU system, type C-h C-a."
  /\ InitEditor
  /\ lispEnv = createGlobalEnv
  /\ last = [op |-> "init", code |-> "", ok |-> TRUE, val |-> Undefined, error |-> "",
             uncaught |-> ""]

\* evalSexp(code), as the Eval prompt and C-x C-e call it: Commit(r) makes
\* the outcome r of the call the next state.  The step is taken while the
\* buffers hold at most MaxInserted characters more than at the start, or
\* no more than before it.
EvalSexp(code) ==
  LET Commit(r) ==
        /\ TotalContent(r.h.buffers, 1) <=
             Max(TotalContent(INITIAL_BUFFERS, 1) + MaxInserted, TotalContent(buffers, 1))
        /\ buffers' = r.h.buffers
        /\ activeBufferId' = r.h.activeBufferId
        /\ message' = r.h.message
        /\ lispEnv' = r.vars
        /\ UNCHANGED editorVars
        /\ last' = [op |-> "evalSexp", code |-> code, ok |-> r.ok, val |-> r.val,
                    error |-> r.error, uncaught |-> r.uncaught]
  IN Commit(evalSexp(code, lispEnv, Host))

\* The editor state after the step.
HostNext == [buffers |-> buffers', activeBufferId |-> activeBufferId', message |-> message']

\* stateRef.current and the global bindings, as the handlers take them.
Editor ==
  [buffers |-> buffers, activeBufferId |-> activeBufferId, editorMode |-> editorMode,
   chordStack |-> chordStack, minibuffer |-> minibuffer, message |-> message,
   vars |-> lispEnv, pending |-> pending]

\* No buffer of bufs holds more than MaxInserted characters more than the
\* buffer of its name holds at the start, but for a buffer that is no longer
\* than one of its name in before.
WithinBound(bufs, before) ==
  LET InitialLength(name) ==
        LET i == FindIndexByName(INITIAL_BUFFERS, name, 0)
        IN IF i = -1 THEN 0 ELSE Len(INITIAL_BUFFERS[i + 1].content)
      Within(i) ==
        \/ Len(bufs[i].content) <= InitialLength(bufs[i].name) + MaxInserted
        \/ \E j \in 1..Len(before) :
             /\ before[j].name = bufs[i].name
             /\ Len(before[j].content) >= Len(bufs[i].content)
  IN {i \in 1..Len(bufs) : ~Within(i)} = {}

\* The outcome r of a handler becomes the next state.  The step is taken
\* while it makes no buffer longer than the bound and awaits no more than
\* MaxPending requests.
Handled(r, event) ==
  /\ WithinBound(r.s.buffers, buffers)
  /\ Len(r.s.pending) <= MaxPending
  /\ pending' = r.s.pending
  /\ buffers' = r.s.buffers
  /\ activeBufferId' = r.s.activeBufferId
  /\ editorMode' = r.s.editorMode
  /\ chordStack' = r.s.chordStack
  /\ minibuffer' = r.s.minibuffer
  /\ message' = r.s.message
  /\ lispEnv' = r.s.vars
  /\ last' = [op |-> event.op, key |-> event.key, isCtrl |-> event.isCtrl,
              isMeta |-> event.isMeta, from |-> editorMode, code |-> "",
              ok |-> r.err = "", val |-> Undefined, error |-> r.err, uncaught |-> r.err,
              evaluated |-> r.evaluated]

\* A key pressed in the text area, which App renders while it has a buffer
\* to show.
EditorKeyDown(key, isCtrl, isMeta) ==
  /\ Len(buffers) > 0
  /\ Handled(handleEditorKeyDown(Editor, key, isCtrl, isMeta),
             [op |-> "editorKey", key |-> key, isCtrl |-> isCtrl, isMeta |-> isMeta])

\* A key pressed in the minibuffer's input, which is rendered while the
\* minibuffer has a type.
MinibufferKeyDown(key, isCtrl) ==
  /\ Len(buffers) > 0
  /\ minibuffer.type # "NONE"
  /\ Handled(handleMinibufferKeyDown(Editor, key, isCtrl),
             [op |-> "minibufferKey", key |-> key, isCtrl |-> isCtrl, isMeta |-> FALSE])

\* onChange of the minibuffer's input.
MinibufferInput(val) ==
  /\ Len(buffers) > 0
  /\ minibuffer.type # "NONE"
  /\ Handled(Done([Editor EXCEPT !.minibuffer.input = val]),
             [op |-> "minibufferInput", key |-> val, isCtrl |-> FALSE, isMeta |-> FALSE])

\* onSelect of the text area: the cursor is put at the offset p of the
\* rendered buffer's content.
EditorSelect(p) ==
  /\ Len(buffers) > 0
  /\ p \in 0..Len(RenderedBuffer(Editor).content)
  /\ Handled(Done(updateActiveBuffer(Editor, [cursorPosition |-> p])),
             [op |-> "select", key |-> "", isCtrl |-> FALSE, isMeta |-> FALSE])

\* onChange of the text area, which is no read-only one: handleChange gives
\* the content c and then the cursor p.
EditorChange(c, p) ==
  /\ Len(buffers) > 0
  /\ ~RenderedBuffer(Editor).readOnly
  /\ p \in 0..Len(c)
  /\ Handled(Done(updateActiveBuffer(
               updateActiveBuffer(Editor, [content |-> c, isModified |-> TRUE]),
               [cursorPosition |-> p])),
             [op |-> "change", key |-> "", isCtrl |-> FALSE, isMeta |-> FALSE])

\* api.switchBuffer(name), as a primitive calls it.
ApiSwitchBuffer(name) ==
  /\ Len(buffers) > 0
  /\ Handled(Done(apiSwitchBuffer(Editor, name)),
             [op |-> "switchBuffer", key |-> name, isCtrl |-> FALSE, isMeta |-> FALSE])

\* api.killBuffer(name)
ApiKillBuffer(name) ==
  /\ Len(buffers) > 0
  /\ LET Killed(k) == [Done(k.h) EXCEPT !.err = k.err]
     IN Handled(Killed(apiKillBuffer(Editor, name)),
                [op |-> "killBuffer", key |-> name, isCtrl |-> FALSE, isMeta |-> FALSE])

\* api.insert(text)
ApiInsert(text) ==
  /\ Len(buffers) > 0
  /\ Handled(Done(apiInsert(Editor, text)),
             [op |-> "insert", key |-> text, isCtrl |-> FALSE, isMeta |-> FALSE])

\* The outcomes of the generative-text service: a response with a text, a
\* response with none, and a failure (no API key).
ServiceOutcomes ==
  {[ok |-> TRUE, text |-> "hi"], [ok |-> TRUE, text |-> ""],
   [ok |-> FALSE, error |-> "API Key missing"]}

\* The awaited request i completes with an outcome of the service, and the
\* handler that awaits it runs to its end.  The step is taken from buffers
\* within the bound, or while it makes no buffer longer than the bound.
GeminiCompletes(i, outcome) ==
  /\ i \in 1..Len(pending)
  /\ LET request == pending[i]
         text == generateText(outcome)
         s == [Editor EXCEPT !.pending = RemoveAt(pending, i)]
         Completed(after) ==
           /\ IF WithinBound(buffers, <<>>) THEN TRUE ELSE WithinBound(after.buffers, buffers)
           /\ buffers' = after.buffers
           /\ activeBufferId' = after.activeBufferId
           /\ editorMode' = after.editorMode
           /\ chordStack' = after.chordStack
           /\ minibuffer' = after.minibuffer
           /\ message' = after.message
           /\ lispEnv' = after.vars
           /\ pending' = after.pending
           /\ last' = [op |-> "gemini", kind |-> request.kind, from |-> request.from,
                       text |-> text, ok |-> outcome.ok, mode |-> editorMode]
     IN Completed(IF request.kind = "ask" THEN geminiAnswered(s, text)
                  ELSE geminiExplained(s, text))

\* The step is the evaluation of code by evalSexp.
Evaluated(code) == last'.op = "evalSexp" /\ last'.code = code

(***************************************************************************)
(* Source texts.                                                           *)
(***************************************************************************)
RECURSIVE Concat(_, _)
\* The texts of a sequence from the 1-based index i, one after the other.
Concat(texts, i) == IF i > Len(texts) THEN "" ELSE texts[i] \o Concat(texts, i + 1)

\* The form (head form1 ... formn).
Form(head, forms) ==
  "(" \o head \o Concat([i \in 1..Len(forms) |-> " " \o forms[i]], 1) \o ")"

Progn(forms) == Form("progn", forms)
InsertOf(s) == "(insert \"" \o s \o "\")"

\* Forms that move between buffers and move the cursor, to vary the state
\* an evaluation starts from.
ContextSources == {"(switch-to-buffer \"a\")", "(switch-to-buffer \"*scratch*\")"}

(***************************************************************************)
(* Chained inserts.                                                        *)
(***************************************************************************)
\* The chains of inserted strings: the runs of "A", "B", "C", the empty one
\* included.
InsertSeqs == {SubSeq(<<"A", "B", "C">>, i, j) : i \in 1..3, j \in 0..3}
PrognInserts(ss) == Progn([i \in 1..Len(ss) |-> InsertOf(ss[i])])

InsertSources == {PrognInserts(ss) : ss \in InsertSeqs}

NextInsert == \E code \in InsertSources \cup ContextSources : EvalSexp(code)
SpecInsert == Init /\ [][NextInsert]_vars

\* C1: evaluating (progn (insert s1) ... (insert sn)) in any state leaves
\* the active buffer's content C[0..c) + s1 + ... + sn + C[c..) and its cursor
\* at c + len(s1) + ... + len(sn), where C and c are its content and cursor
\* before; the active buffer stays the active one.
C1_ChainedInserts ==
  [][\A ss \in InsertSeqs :
       Evaluated(PrognInserts(ss)) =>
         LET C == ActiveBuffer(Host).content
             c == ActiveBuffer(Host).cursorPosition
         IN /\ activeBufferId' = activeBufferId
            /\ ActiveBuffer(HostNext).content =
                 Slice(C, 0, c) \o Concat(ss, 1) \o SliceFrom(C, c)
            /\ ActiveBuffer(HostNext).cursorPosition = c + Len(Concat(ss, 1))]_vars

\* C1's case: on an empty buffer with the cursor at 0 the three inserts have
\* left "ABC" and the cursor at 3.
C1_Witness ==
  /\ last.op = "evalSexp"
  /\ last.code = "(progn (insert \"A\") (insert \"B\") (insert \"C\"))"
  /\ ActiveBuffer(Host).content = "ABC"
  /\ ActiveBuffer(Host).cursorPosition = 3

(***************************************************************************)
(* Failure in the middle of a progn or a setq.                             *)
(***************************************************************************)
\* The elements of the progn: each has an effect that can be seen after it,
\* on the editor state or on the global environment.
Steps ==
  <<[src |-> "(insert \"abc\")", kind |-> "insert", text |-> "abc"],
    [src |-> "(setq x 1)", kind |-> "setq", name |-> "x", num |-> 1],
    [src |-> "(goto-char 2)", kind |-> "goto", pos |-> 2]>>

\* The pairs of the setq: a name and the source of its value.
Pairs ==
  <<[src |-> "x 1", kind |-> "setq", name |-> "x", num |-> 1],
    [src |-> "y (goto-char 2)", kind |-> "gotoset", name |-> "y", pos |-> 2],
    [src |-> "z 3", kind |-> "setq", name |-> "z", num |-> 3]>>

\* The forms that fail, each with the message of its exception.
Failing ==
  {[src |-> "nope", msg |-> "Void variable: nope"],
   [src |-> "(1)", msg |-> "Invalid function call: {\"type\":\"NUMBER\",\"value\":1}"],
   [src |-> "(car)", msg |-> "Cannot read properties of undefined (reading 'elements')"]}

\* The pairs that fail: a value that fails, or a name that is no symbol.
FailingPairs ==
  {[src |-> "v " \o f.src, msg |-> f.msg] : f \in Failing}
    \cup {[src |-> "7 8", msg |-> "setq expects symbols"]}

\* The state [h, vars] after the effect of one step on it.
StepEffect(step, st) ==
  CASE step.kind = "insert" -> [st EXCEPT !.h = apiInsert(st.h, step.text)]
    [] step.kind = "setq" -> [st EXCEPT !.vars = MapSet(st.vars, step.name, mkNum(step.num))]
    [] step.kind = "goto" -> [st EXCEPT !.h = apiSetCursor(st.h, step.pos)]
    [] step.kind = "gotoset" ->
         [h |-> apiSetCursor(st.h, step.pos),
          vars |-> MapSet(st.vars, step.name, mkNum(step.pos))]

RECURSIVE Effects(_, _, _)
\* The state after the effects of the first n of the steps, in order.
Effects(steps, n, st) ==
  IF n = 0 THEN st ELSE StepEffect(steps[n], Effects(steps, n - 1, st))

\* The sources of the steps with src put in before the k-th of them.
FailingAt(steps, k, src) ==
  [i \in 1..(Len(steps) + 1) |->
     IF i < k THEN steps[i].src ELSE IF i = k THEN src ELSE steps[i - 1].src]

PrognFailing(k, f) == Progn(FailingAt(Steps, k, f.src))
\* The setq whose k-th pair is the failing pair f.
SetqFailing(k, f) ==
  Form("setq", [i \in 1..Len(Pairs) |-> IF i = k THEN f.src ELSE Pairs[i].src])

FailSources ==
  {PrognFailing(k, f) : k \in 1..(Len(Steps) + 1), f \in Failing}
    \cup {SetqFailing(k, f) : k \in 1..Len(Pairs), f \in FailingPairs}

NextFail == \E code \in FailSources \cup ContextSources : EvalSexp(code)
SpecFail == Init /\ [][NextFail]_vars

\* The state evalSexp leaves when the evaluation has had the effects of the
\* first n of the steps and has then failed with msg.
FailedAfter(steps, n, msg) ==
  LET st == Effects(steps, n, [h |-> Host, vars |-> lispEnv])
  IN /\ HostNext = echo(st.h, "Lisp Error: " \o msg)
     /\ lispEnv' = st.vars
     /\ ~last'.ok
     /\ last'.error = msg

\* C2: when the k-th element of a progn, or the k-th pair of a setq, fails,
\* the state afterwards has every effect of the elements before it, on the
\* editor state and on the environment, nothing is rolled back, no later
\* element has had its effect, and the echo area shows the error.
C2_NoRollback ==
  [][/\ \A k \in 1..(Len(Steps) + 1), f \in Failing :
          Evaluated(PrognFailing(k, f)) => FailedAfter(Steps, k - 1, f.msg)
     /\ \A k \in 1..Len(Pairs), f \in FailingPairs :
          Evaluated(SetqFailing(k, f)) => FailedAfter(Pairs, k - 1, f.msg)]_vars

\* C2's case: a progn has failed at its third element after an insert and
\* a setq; both are there and the cursor move after it is not.
C2_Witness ==
  /\ last.op = "evalSexp"
  /\ last.code = "(progn (insert \"abc\") (setq x 1) nope (goto-char 2))"
  /\ ~last.ok
  /\ activeBufferId = INITIAL_BUFFER_ID
  /\ ActiveBuffer(Host).content = "abc" \o WELCOME_MESSAGE
  /\ ActiveBuffer(Host).cursorPosition = 3
  /\ "x" \in DOMAIN lispEnv /\ lispEnv["x"] = mkNum(1)
  /\ message = "Lisp Error: Void variable: nope"

(***************************************************************************)
(* The echo area after evalSexp.                                           *)
(***************************************************************************)
\* Source texts whose echo is the same in every state: texts that parse,
\* evaluate and print, texts that fail in the reader, in the evaluator and
\* in the printer, and texts that call message themselves.
EchoTable ==
  {[src |-> "(+ 2 2)", echo |-> "4"],
   [src |-> "", echo |-> "nil"],
   [src |-> "(= 1 1)", echo |-> "t"],
   [src |-> "(list 1 \"a\" (quote b))", echo |-> "(1 \"a\" b)"],
   [src |-> "(message \"hi\")", echo |-> "\"hi\""],
   [src |-> "(insert \"A\")", echo |-> "nil"],
   [src |-> "(defun loop () (loop))", echo |-> "loop"],
   [src |-> "(+ 1 2", echo |-> "Lisp Error: Unclosed list"],
   [src |-> "undefined-var", echo |-> "Lisp Error: Void variable: undefined-var"],
   [src |-> "(progn (message \"hi\") nope)", echo |-> "Lisp Error: Void variable: nope"],
   [src |-> "(quote)",
    echo |-> "Lisp Error: Cannot read properties of undefined (reading 'type')"],
   [src |-> "(car (list))",
    echo |-> "Lisp Error: Cannot read properties of undefined (reading 'type')"]}

\* Source texts whose echo depends on the state they are evaluated in.
EchoSources ==
  {e.src : e \in EchoTable} \cup {"(buffer-name)", "(point)", "(loop)"} \cup ContextSources

NextEcho == \E code \in EchoSources : EvalSexp(code)
SpecEcho == Init /\ [][NextEcho]_vars

\* The echo area evalSexp leaves for code: the printed result when reading,
\* evaluating and printing all succeed, and otherwise "Lisp Error: " and the
\* message of the first of them to fail.
EchoOf(code) ==
  LET ast == parse(code)
  IN IF ast.err # "" THEN "Lisp Error: " \o ast.err
     ELSE LET result == evalLisp(ast.val, <<lispEnv>>, Host, 1)
          IN IF result.err # "" THEN "Lisp Error: " \o result.err
             ELSE LET text == printLisp(result.val)
                  IN IF text.err # "" THEN "Lisp Error: " \o text.err ELSE text.text

\* C3: no exception leaves evalSexp for any source text; when reading,
\* evaluating and printing succeed the final echo area is the printed
\* result, and otherwise it is "Lisp Error: " followed by the message of the
\* exception.
C3_EchoIsResultOrError ==
  [][/\ \A code \in EchoSources :
          Evaluated(code) => last'.uncaught = "" /\ message' = EchoOf(code)
     /\ \A e \in EchoTable : Evaluated(e.src) => message' = e.echo
     /\ Evaluated("(loop)") /\ "loop" \in DOMAIN lispEnv =>
          message' = "Lisp Error: Maximum call stack size exceeded"]_vars

\* C3's case: the evaluation succeeded and the printer failed, and the echo
\* area shows the printer's exception.
C3_Witness ==
  /\ last.op = "evalSexp"
  /\ last.code = "(quote)"
  /\ ~last.ok
  /\ last.uncaught = ""
  /\ message = "Lisp Error: Cannot read properties of undefined (reading 'type')"

(***************************************************************************)
(* Scoping: setq, let, function calls, symbol lookup and defun.            *)
(***************************************************************************)
\* The step returned the value v.
Returned(v) == last'.ok /\ last'.val = v
\* The step failed with the message msg.
Failed(msg) == ~last'.ok /\ last'.error = msg

\* The step gave what the global environment has for name before it: its
\* value, or the failure of a name no environment defines.
GaveGlobal(name) ==
  IF name \in DOMAIN lispEnv THEN Returned(lispEnv[name])
  ELSE Failed("Void variable: " \o name)

\* The step left every global binding as it was, those of names excepted.
GlobalsKept(names) ==
  /\ DOMAIN lispEnv' \ names = DOMAIN lispEnv \ names
  /\ \A n \in DOMAIN lispEnv \ names : lispEnv'[n] = lispEnv[n]

\* Top-level forms that give x a global binding, or another one.
GlobalSources == {"(setq x 9)", "(setq x 8)"}

\* setq inside a let body and inside a function body.
SetqInLet == "(let ((y 1)) (setq x 5) x)"
SetqInInnerLet == "(let ((x 1)) (let ((y 2)) (setq x 5)) x)"
SetqInFunction == "(progn (defun f () (setq x 5) x) (let ((x 1)) (list (f) x)))"
SetqSources == {SetqInLet, SetqInInnerLet, SetqInFunction}

\* Calls of a function with a free variable x.
CallFromLet == "(progn (defun f () x) (let ((x 7)) (f)))"
CallFromCaller == "(progn (defun f () x) (defun k () (let ((x 3)) (f))) (let ((x 7)) (k)))"
CallFromTop == "(progn (defun f () x) (f))"
CallOutsideDefinition == "(progn (setq f (let ((x 1)) (defun m () x) m)) (f))"
CallSources == {CallFromLet, CallFromCaller, CallFromTop, CallOutsideDefinition}

\* let forms.
LetInitOuter == "(let ((x 1) (y x)) y)"
LetInitEnclosing == "(let ((x 2)) (let ((x 1) (y x)) y))"
LetSum == "(let ((x 1) (y 2)) (+ x y))"
LetNoBody == "(let ((x 1)))"
LetLastBody == "(let ((x 1) (y 2)) x y)"
LetSources == {LetInitOuter, LetInitEnclosing, LetSum, LetNoBody, LetLastBody}

\* Lookups of x under zero, one and two bindings of it.
LookupTop == "x"
LookupInnermost == "(let ((x 1)) (let ((x 2)) x))"
LookupEnclosing == "(let ((x 1)) (let ((y 2)) x))"
LookupGlobal == "(let ((y 1)) (let ((z 2)) x))"
LookupAfterInner == "(let ((x 1)) (let ((x 2)) 0) x)"
LookupSources == {LookupTop, LookupInnermost, LookupEnclosing, LookupGlobal, LookupAfterInner}

\* defun at top level, inside a let body and inside a function body, and
\* the calls of the functions they name.
DefunTop == "(defun f () 42)"
DefunInLet == "(let ((y 1)) (defun lf () 42) (lf))"
DefunInFunction == "(progn (defun f () (defun ff () 42) (ff)) (f))"
DefunSources == {DefunTop, DefunInLet, DefunInFunction, "(f)", "(lf)", "(ff)"}

\* The function (defun name () 42) makes.
Function42 ==
  [type |-> "FUNC", params |-> <<>>, body |-> mkList(<<mkSym("progn"), mkNum(42)>>)]

ScopeSources ==
  GlobalSources \cup SetqSources \cup CallSources \cup LetSources \cup LookupSources
    \cup DefunSources

NextScope == \E code \in ScopeSources : EvalSexp(code)
SpecScope == Init /\ [][NextScope]_vars

\* C4: a setq evaluated inside a let body or a function body binds the name
\* in that innermost environment only: the form sees the new value, and no
\* binding of an enclosing environment is added or changed, whether or not
\* the name is bound there.
C4_SetqBindsInnermost ==
  [][/\ Evaluated(SetqInLet) => Returned(mkNum(5)) /\ GlobalsKept({})
     /\ Evaluated(SetqInInnerLet) => Returned(mkNum(1)) /\ GlobalsKept({})
     /\ Evaluated(SetqInFunction) =>
          Returned(mkList(<<mkNum(5), mkNum(1)>>)) /\ GlobalsKept({"f"})]_vars

\* C4's case: x has a global binding, the setq in the let body has run, and
\* the global binding is the one it was.
C4_Witness ==
  /\ last.op = "evalSexp" /\ last.code = SetqInLet
  /\ last.ok /\ last.val = mkNum(5)
  /\ "x" \in DOMAIN lispEnv /\ lispEnv["x"] = mkNum(9)

C6_LetIsParallel ==
  [][/\ Evaluated(LetInitOuter) => GaveGlobal("x")
     /\ Evaluated(LetInitEnclosing) => Returned(mkNum(2))
     /\ Evaluated(LetSum) => Returned(mkNum(3))
     /\ Evaluated(LetNoBody) => Returned(mkNull)
     /\ Evaluated(LetLastBody) => Returned(mkNum(2))
     /\ \A code \in LetSources : Evaluated(code) => GlobalsKept({})]_vars

\* C6's case: the second initializer of a let named x, which the let binds
\* to 1, and got the global 9.
C6_Witness ==
  /\ last.op = "evalSexp" /\ last.code = LetInitOuter
  /\ last.ok /\ last.val = mkNum(9)

\* C7: a symbol evaluates to the binding of the innermost environment of
\* the chain that defines it, and fails with "Void variable: <name>" exactly
\* when no environment of the chain, the global one included, defines it.
C7_InnermostBinding ==
  [][/\ Evaluated(LookupTop) => GaveGlobal("x")
     /\ Evaluated(LookupInnermost) => Returned(mkNum(2))
     /\ Evaluated(LookupEnclosing) => Returned(mkNum(1))
     /\ Evaluated(LookupGlobal) => GaveGlobal("x")
     /\ Evaluated(LookupAfterInner) => Returned(mkNum(1))]_vars

\* C7's case: x is bound in the global environment and in two lets, and
\* the lookup gave the inner let's.
C7_Witness ==
  /\ last.op = "evalSexp" /\ last.code = LookupInnermost
  /\ last.ok /\ last.val = mkNum(2)
  /\ "x" \in DOMAIN lispEnv

\* The statement that every successful defun, wherever it is evaluated,
\* leaves its function bound in the global environment.
C10_DefunAlwaysGlobal ==
  last.op = "evalSexp" /\ last.ok =>
    /\ last.code = DefunTop => "f" \in DOMAIN lispEnv /\ lispEnv["f"].type = "FUNC"
    /\ last.code = DefunInLet => "lf" \in DOMAIN lispEnv /\ lispEnv["lf"].type = "FUNC"
    /\ last.code = DefunInFunction => "ff" \in DOMAIN lispEnv /\ lispEnv["ff"].type = "FUNC"

\* C10: a defun evaluated at top level binds its function in the global
\* environment, where it stays and is callable from the later evaluations of
\* the session; a defun evaluated inside a let body or a function body
\* binds its function in that child environment only, so that it is
\* callable there and void once the let or the call has returned.
C10_DefunBindsWhereEvaluated ==
  [][/\ Evaluated(DefunTop) =>
          Returned(mkSym("f")) /\ lispEnv' = MapSet(lispEnv, "f", Function42)
     /\ Evaluated("(f)") /\ "f" \in DOMAIN lispEnv /\ lispEnv["f"] = Function42 =>
          Returned(mkNum(42))
     /\ DOMAIN lispEnv \subseteq DOMAIN lispEnv'
     /\ Evaluated(DefunInLet) => Returned(mkNum(42)) /\ GlobalsKept({})
     /\ Evaluated(DefunInFunction) =>
          Returned(mkNum(42)) /\ GlobalsKept({"f"}) /\ lispEnv'["f"].type = "FUNC"
     /\ Evaluated("(lf)") => Failed("Void variable: lf")
     /\ Evaluated("(ff)") => Failed("Void variable: ff")]_vars

\* C10's case: f was defined at top level by an earlier evaluation and a
\* later one has called it.
C10_Witness ==
  /\ last.op = "evalSexp" /\ last.code = "(f)"
  /\ last.ok /\ last.val = mkNum(42)
  /\ lispEnv["f"] = Function42

(***************************************************************************)
(* The reader on input that ends inside a list.                            *)
(***************************************************************************)
\* The characters of the inputs.
Alphabet == {"(", ")", "a", " ", "\"", "'", "\\"}

RECURSIVE Texts(_)
\* The texts over Alphabet of length at most n.
Texts(n) ==
  IF n = 0 THEN {""}
  ELSE LET shorter == Texts(n - 1) IN shorter \cup {t \o c : t \in shorter, c \in Alphabet}

ParseInputs == Texts(MaxSrcLen) \cup {"(+ 1 2", "(+ 1 2)"}

InitParse ==
  /\ buffers = INITIAL_BUFFERS
  /\ activeBufferId = INITIAL_BUFFER_ID
  /\ message = "For information about GNU Emacs and the GNU system, type C-h C-a."
  /\ InitEditor
  /\ lispEnv = createGlobalEnv
  /\ \E input \in ParseInputs :
       last = [op |-> "input", code |-> input, ok |-> TRUE, val |-> Undefined,
               error |-> "", uncaught |-> ""]

\* parse(input): the value it returns, or the message of its exception.
Parse ==
  /\ last.op = "input"
  /\ LET r == parse(last.code)
     IN last' = [op |-> "parse", code |-> last.code, ok |-> r.err = "", val |-> r.val,
                 error |-> r.err, uncaught |-> r.err]
  /\ UNCHANGED <<buffers, activeBufferId, editorVars, message, lispEnv>>

SpecParse == InitParse /\ [][Parse]_vars

RECURSIVE StringEnd(_, _)
\* The offset after the string literal whose text starts at pos, or an
\* offset at or after the end of the input when nothing closes the literal.
StringEnd(input, pos) ==
  IF pos >= Len(input) THEN pos
  ELSE IF CharAt(input, pos) = "\"" THEN pos + 1
  ELSE IF CharAt(input, pos) = "\\" THEN StringEnd(input, pos + 2)
  ELSE StringEnd(input, pos + 1)

RECURSIVE OpenAtEnd(_, _, _)
\* Reading the first expression of the input from pos, with depth lists
\* open, comes to the end of the input with a list still open.
OpenAtEnd(input, pos, depth) ==
  IF pos >= Len(input) THEN depth > 0
  ELSE LET c == CharAt(input, pos)
       IN IF c = " " \/ c = "'" THEN OpenAtEnd(input, pos + 1, depth)
          ELSE IF c = "(" THEN OpenAtEnd(input, pos + 1, depth + 1)
          ELSE IF c = ")" THEN depth > 1 /\ OpenAtEnd(input, pos + 1, depth - 1)
          ELSE IF c = "\"" THEN depth > 0 /\ OpenAtEnd(input, StringEnd(input, pos + 1), depth)
          ELSE depth > 0 /\ OpenAtEnd(input, AtomScan(input, pos), depth)

\* C8: when the input ends while a list opened by "(" still waits for its
\* ")", as in "(+ 1 2", parse fails with "Unclosed list" and returns no
\* list; it fails so for no other input.
C8_UnclosedList ==
  last.op = "parse" =>
    (OpenAtEnd(last.code, 0, 0) <=>
       ~last.ok /\ last.error = "Unclosed list" /\ IsUndefined(last.val))

\* C8's case: the input "(+ 1 2" has been read and the reader has failed.
C8_Witness ==
  /\ last.op = "parse" /\ last.code = "(+ 1 2"
  /\ OpenAtEnd(last.code, 0, 0)
  /\ last.error = "Unclosed list"

(***************************************************************************)
(* The condition and the branches of if.                                   *)
(***************************************************************************)
\* Conditions, each with whether if takes its value for true.
Conditions ==
  {[src |-> "nil", truthy |-> FALSE],
   [src |-> "()", truthy |-> FALSE],
   [src |-> "(quote nil)", truthy |-> FALSE],
   [src |-> "(= 1 2)", truthy |-> FALSE],
   [src |-> "(= 1 1)", truthy |-> TRUE],
   [src |-> "t", truthy |-> TRUE],
   [src |-> "0", truthy |-> TRUE],
   [src |-> "\"\"", truthy |-> TRUE],
   [src |-> "(list)", truthy |-> TRUE],
   [src |-> "(quote ())", truthy |-> TRUE]}

\* The condition and the branches each insert a letter when evaluated.
Marked(letter, src) == "(progn (insert \"" \o letter \o "\") " \o src \o ")"
IfThenElse(c) ==
  Form("if", <<Marked("c", c.src), Marked("T", "1"), Marked("E", "2")>>)
IfThen(c) == Form("if", <<Marked("c", c.src), Marked("T", "1")>>)

IfSources == {IfThenElse(c) : c \in Conditions} \cup {IfThen(c) : c \in Conditions}

NextIf == \E code \in IfSources \cup ContextSources : EvalSexp(code)
SpecIf == Init /\ [][NextIf]_vars

\* The step inserted text at the cursor of the active buffer and nothing
\* else, and returned v.
InsertedAndReturned(text, v) ==
  LET C == ActiveBuffer(Host).content
      c == ActiveBuffer(Host).cursorPosition
  IN /\ Returned(v)
     /\ activeBufferId' = activeBufferId
     /\ ActiveBuffer(HostNext).content = Slice(C, 0, c) \o text \o SliceFrom(C, c)
     /\ TotalContent(buffers', 1) = TotalContent(buffers, 1) + Len(text)

\* C9: if takes its condition for false exactly when the value is Nil or
\* the boolean false, and for true otherwise, 0, the empty string and the
\* empty list included; the condition is evaluated once, exactly one branch
\* is evaluated and its value returned, the other branch has no effect, and
\* a false condition without an else branch gives Nil.
C9_IfTruthiness ==
  [][\A c \in Conditions :
       /\ Evaluated(IfThenElse(c)) =>
            IF c.truthy THEN InsertedAndReturned("cT", mkNum(1))
            ELSE InsertedAndReturned("cE", mkNum(2))
       /\ Evaluated(IfThen(c)) =>
            IF c.truthy THEN InsertedAndReturned("cT", mkNum(1))
            ELSE InsertedAndReturned("c", mkNull)]_vars

\* C9's case: the condition was the number 0 and the then branch was taken.
C9_Witness ==
  /\ last.op = "evalSexp"
  /\ last.code = IfThenElse([src |-> "0", truthy |-> TRUE])
  /\ last.ok /\ last.val = mkNum(1)
  /\ ActiveBuffer(Host).content = "cT" \o WELCOME_MESSAGE

(***************************************************************************)
(* car and cdr.                                                            *)
(***************************************************************************)
\* Arguments of car and cdr: the source of each, and the first element and
\* the rest a Lisp gives for it, Nil for the empty list and for what is no
\* list.
ListArguments ==
  {[src |-> "(list)", car |-> mkNull, cdr |-> mkNull],
   [src |-> "(quote ())", car |-> mkNull, cdr |-> mkNull],
   [src |-> "5", car |-> mkNull, cdr |-> mkNull],
   [src |-> "\"s\"", car |-> mkNull, cdr |-> mkNull],
   [src |-> "nil", car |-> mkNull, cdr |-> mkNull],
   [src |-> "(list 1)", car |-> mkNum(1), cdr |-> mkList(<<>>)],
   [src |-> "(list 1 2 3)", car |-> mkNum(1), cdr |-> mkList(<<mkNum(2), mkNum(3)>>)],
   [src |-> "(quote (a (b)))", car |-> mkSym("a"),
    cdr |-> mkList(<<mkList(<<mkSym("b")>>)>>)]}

CarOf(a) == Form("car", <<a.src>>)
CdrOf(a) == Form("cdr", <<a.src>>)

ListSources ==
  {CarOf(a) : a \in ListArguments} \cup {CdrOf(a) : a \in ListArguments}
    \cup ContextSources \cup GlobalSources

NextList == \E code \in ListSources : EvalSexp(code)
SpecList == Init /\ [][NextList]_vars

\* C11: car and cdr return Nil when their argument is an empty list or is
\* no list; for a non-empty list car returns the first element and cdr the
\* list of the remaining elements.
C11_CarCdr ==
  last.op = "evalSexp" =>
    \A a \in ListArguments :
      /\ last.code = CarOf(a) => last.ok /\ last.val = a.car
      /\ last.code = CdrOf(a) => last.ok /\ last.val = a.cdr

\* C11's case: car was given the empty list; what it returned is no value
\* the printer knows, and the evaluation ended in the printer's exception.
C11_Witness ==
  /\ last.op = "evalSexp" /\ last.code = "(car (list))"
  /\ ~last.ok
  /\ message = "Lisp Error: Cannot read properties of undefined (reading 'type')"

(***************************************************************************)
(* Printing a value and reading it back.                                   *)
(***************************************************************************)
\* The most elements of a list literal.
MaxListLen == 2

\* Literals of numbers, booleans, nil and strings without a double quote.
AtomLiterals ==
  {"0", "-1", "12", "1.5", "0.001", "0.0000001", "t", "nil", "\"\"", "\"a b\""}

\* The list literal of the element literals q.
ListLiteral(q) ==
  "(" \o Concat([i \in 1..Len(q) |-> (IF i > 1 THEN " " ELSE "") \o q[i]], 1) \o ")"

\* The list literals of at most MaxListLen elements drawn from E.
ListLiterals(E) == {ListLiteral(q) : q \in UNION {[1..k -> E] : k \in 0..MaxListLen}}

\* Atoms, lists of atoms, lists of lists, and one list nested deeper.
Literals ==
  AtomLiterals \cup ListLiterals(AtomLiterals)
    \cup ListLiterals({"1", "t"} \cup ListLiterals({"1", "t"}))
    \cup {"((1 (2 ())) 3)"}

InitRoundTrip ==
  /\ buffers = INITIAL_BUFFERS
  /\ activeBufferId = INITIAL_BUFFER_ID
  /\ message = "For information about GNU Emacs and the GNU system, type C-h C-a."
  /\ InitEditor
  /\ lispEnv = createGlobalEnv
  /\ \E literal \in Literals :
       last = [op |-> "literal", code |-> literal, ok |-> TRUE, val |-> Undefined,
               error |-> "", uncaught |-> ""]

\* parse(printLisp(v)) for the value v that parse makes of the literal:
\* input is v, printed its text, val what parse makes of the text.
RoundTrip ==
  /\ last.op = "literal"
  /\ LET v == parse(last.code).val
         text == printLisp(v)
         back == parse(text.text)
     IN last' = [op |-> "roundtrip", code |-> last.code, input |-> v,
                 printed |-> text.text, ok |-> text.err = "" /\ back.err = "",
                 val |-> back.val, error |-> back.err, uncaught |-> back.err]
  /\ UNCHANGED <<buffers, activeBufferId, editorVars, message, lispEnv>>

SpecRoundTrip == InitRoundTrip /\ [][RoundTrip]_vars

\* C12: for a value v made of number, string, boolean, nil and list
\* literals, parse(printLisp(v)) equals v when v is a number, a boolean, nil
\* or a list, nested lists included.
C12_RoundTrip ==
  last.op = "roundtrip" /\ last.input.type \in {"NUMBER", "BOOL", "NULL", "LIST"} =>
    last.ok /\ last.val = last.input

\* C12's case: the number of the literal 0.0000001 was printed in exponent
\* notation, which the reader takes for a symbol.
C12_Witness ==
  /\ last.op = "roundtrip" /\ last.code = "0.0000001"
  /\ last.input = mkDecimal(1, 7)
  /\ last.printed = "1e-7"
  /\ last.val = mkSym("1e-7")

(***************************************************************************)
(* The scanner that finds the expression before the cursor.                *)
(***************************************************************************)
\* The texts the scanner is given, each with every cursor from its start to
\* its end.
SexpInputs == Texts(MaxSrcLen) \cup {"(foo (bar 1))", "foo bar", "(a \"b)\")"}

InitSexp ==
  /\ buffers = INITIAL_BUFFERS
  /\ activeBufferId = INITIAL_BUFFER_ID
  /\ message = "For information about GNU Emacs and the GNU system, type C-h C-a."
  /\ InitEditor
  /\ lispEnv = createGlobalEnv
  /\ \E text \in SexpInputs : \E cursor \in 0..Len(text) :
       last = [op |-> "text", code |-> text, cursor |-> cursor, ok |-> TRUE,
               sexp |-> "", val |-> Undefined, error |-> "", uncaught |-> ""]

\* findLastSexp(text, cursor): ok is FALSE when it returns null, sexp is the
\* text it returns otherwise.
FindLastSexp ==
  /\ last.op = "text"
  /\ LET r == findLastSexp(last.code, last.cursor)
     IN last' = [last EXCEPT !.op = "findLastSexp", !.ok = r.found, !.sexp = r.text]
  /\ UNCHANGED <<buffers, activeBufferId, editorVars, message, lispEnv>>

SpecSexp == InitSexp /\ [][FindLastSexp]_vars

\* The offset of the last character before the cursor that is no white
\* space, -1 when there is none.
LastInk(text, cursor) ==
  LET ink == {i \in 0..(cursor - 1) : ~IsSpace(CharAt(text, i))}
  IN IF ink = {} THEN -1 ELSE CHOOSE i \in ink : \A j \in ink : j <= i

\* How many of the characters of text at the offsets from..to are c.
CountOf(text, c, from, to) == Cardinality({i \in from..to : CharAt(text, i) = c})

\* The depth count of the backward scan from the ")" at p, after the
\* characters at p - 1 down to j.
DepthAt(text, j, p) == 1 + CountOf(text, ")", j, p - 1) - CountOf(text, "(", j, p - 1)

\* The offsets where the depth count of the ")" at p first reaches 0.
FirstZero(text, p) ==
  {s \in 0..(p - 1) : /\ DepthAt(text, s, p) = 0
                      /\ \A j \in (s + 1)..(p - 1) : DepthAt(text, j, p) > 0}

\* As many "(" as ")", and no ")" before its "(".
Balanced(t) ==
  /\ CountOf(t, "(", 0, Len(t) - 1) = CountOf(t, ")", 0, Len(t) - 1)
  /\ \A n \in 0..(Len(t) - 1) : CountOf(t, "(", 0, n) >= CountOf(t, ")", 0, n)

\* C13: when the last character before the cursor that is no white space
\* is ")", findLastSexp returns the text from the "(" where the backward
\* depth count (1 at the start, +1 for ")", -1 for "(") first reaches 0
\* through that ")": it starts with "(", ends with ")" and is balanced.
\* When the count never reaches 0 it returns none.  For "(foo (bar 1))" with
\* the cursor at the end it returns the whole text.
C13_ClosedList ==
  last.op = "findLastSexp" =>
    LET p == LastInk(last.code, last.cursor)
    IN /\ p >= 0 /\ CharAt(last.code, p) = ")" =>
            IF FirstZero(last.code, p) = {} THEN ~last.ok
            ELSE /\ last.ok
                 /\ \E s \in FirstZero(last.code, p) : last.sexp = Slice(last.code, s, p + 1)
                 /\ CharAt(last.sexp, 0) = "("
                 /\ CharAt(last.sexp, Len(last.sexp) - 1) = ")"
                 /\ Balanced(last.sexp)
       /\ last.code = "(foo (bar 1))" /\ last.cursor = Len(last.code) =>
            last.ok /\ last.sexp = last.code

\* C13's case: the scanner was given "(foo (bar 1))" with the cursor at the
\* end, and has passed the inner list on its way back.
C13_Witness ==
  /\ last.op = "findLastSexp" /\ last.code = "(foo (bar 1))" /\ last.cursor = 13
  /\ FirstZero(last.code, 12) = {0}
  /\ last.ok /\ last.sexp = "(foo (bar 1))"

\* The characters at the offsets s..p of text are neither white space nor
\* a parenthesis.
IsRun(text, s, p) ==
  \A i \in s..p : ~IsSpace(CharAt(text, i)) /\ CharAt(text, i) \notin {"(", ")"}

\* The start of the longest such run that ends with the character at p;
\* p + 1, the start of the empty run, when that character is a parenthesis.
RunStart(text, p) ==
  CHOOSE s \in 0..(p + 1) : IsRun(text, s, p) /\ \A t \in 0..(s - 1) : ~IsRun(text, t, p)

BufferNames == {"*Messages*", "scratch", "a"}

KillOf(n) == Form("kill-buffer", <<"\"" \o n \o "\"">>)
SwitchOf(n) == Form("switch-to-buffer", <<"\"" \o n \o "\"">>)

BufferSources == {KillOf(n) : n \in BufferNames} \cup {SwitchOf(n) : n \in BufferNames}

\* The primitives from the Eval prompt's evalSexp, C-x k, and M-x with
\* kill-buffer typed and committed.
NextBuffers ==
  \/ \E code \in BufferSources : EvalSexp(code)
  \/ EditorKeyDown("x", TRUE, FALSE)
  \/ EditorKeyDown("k", FALSE, FALSE)
  \/ EditorKeyDown("x", FALSE, TRUE)
  \/ MinibufferInput("kill-buffer")
  \/ MinibufferKeyDown("Enter", FALSE)

SpecBuffers == Init /\ [][NextBuffers]_vars

\* C15: in every state reached through kill-buffer and switch-to-buffer
\* calls and the C-x k and M-x kill-buffer commands, the buffer list holds
\* at least one buffer.
C15_BufferListNeverEmpty == Len(buffers) >= 1

\* C15's case: with two buffers left, both of the id "scratch", kill-buffer
\* removed every buffer of that id and then found no first buffer.
C15_Witness ==
  /\ last.op = "evalSexp" /\ last.code = KillOf("scratch")
  /\ Len(buffers) = 0
  /\ message = "Lisp Error: Cannot read properties of undefined (reading 'id')"

(***************************************************************************)
(* The host capability interface: switchBuffer, killBuffer and insert.     *)
(***************************************************************************)
\* The texts given to insert.
InsertedTexts == {"", "abc"}

NextHost ==
  \/ \E n \in BufferNames : ApiSwitchBuffer(n)
  \/ \E n \in BufferNames : ApiKillBuffer(n)
  \/ \E text \in InsertedTexts : ApiInsert(text)

SpecHost == Init /\ [][NextHost]_vars

\* The step is the call op(arg) of the host capability interface.
Called(op, arg) == last'.op = op /\ last'.key = arg

\* C16: after switchBuffer(n), currentBufferName() returns n.  A buffer
\* that was named n keeps its content and its cursor; when there was none,
\* the buffer that is active now is new: empty, its cursor at 0, not
\* modified.  Every buffer there was before is unchanged.
C16_SwitchBuffer ==
  [][\A n \in BufferNames :
       Called("switchBuffer", n) =>
         /\ apiCurrentBufferName(HostNext) = n
         /\ LET existing == FindIndexByName(buffers, n, 0)
            IN IF existing # -1
               THEN /\ buffers'[existing + 1].content = buffers[existing + 1].content
                    /\ buffers'[existing + 1].cursorPosition =
                         buffers[existing + 1].cursorPosition
               ELSE /\ ActiveBuffer(HostNext).content = ""
                    /\ ActiveBuffer(HostNext).cursorPosition = 0
                    /\ ~ActiveBuffer(HostNext).isModified
         /\ SubSeq(buffers', 1, Len(buffers)) = buffers]_vars

\* C16's case: switchBuffer("scratch") found no buffer of that name and
\* made one whose id the first buffer already has, so that the active id
\* still finds the first buffer.
C16_Witness ==
  /\ last.op = "switchBuffer" /\ last.key = "scratch"
  /\ Len(buffers) = 3 /\ buffers[3].name = "scratch" /\ buffers[3].id = buffers[1].id
  /\ apiCurrentBufferName(Host) = "*scratch*"


\* C17: killBuffer(n), when there is more than one buffer and one of them
\* is named n, removes that buffer and no other, and leaves the others as
\* they were; the first buffer left becomes the active one when the buffer
\* removed was active, and the active buffer stays otherwise.  When there is
\* one buffer only, or none named n, nothing of the editor state changes.
C17_KillBuffer ==
  [][\A n \in BufferNames :
       Called("killBuffer", n) =>
         LET named == FindIndexByName(buffers, n, 0)
         IN IF Len(buffers) > 1 /\ named # -1
            THEN /\ buffers' = RemoveAt(buffers, named + 1)
                 /\ activeBufferId' =
                      IF FindIndexById(buffers, activeBufferId, 0) = named
                      THEN buffers'[1].id ELSE activeBufferId
            ELSE UNCHANGED <<buffers, activeBufferId, editorVars, message, lispEnv>>]_vars

\* C17's case: killBuffer("scratch") has removed the buffer named
\* "*scratch*" together with the one named "scratch".
C17_Witness ==
  /\ last.op = "killBuffer" /\ last.key = "scratch"
  /\ Len(buffers) >= 1
  /\ \A i \in 1..Len(buffers) : buffers[i].name \notin {"scratch", "*scratch*"}

\* C19: insert(text) puts text at the cursor of the active buffer, moves
\* that cursor past it and marks that buffer modified; every other buffer,
\* the order of the buffers and the active id stay as they were.
C19_InsertActiveOnly ==
  [][\A text \in InsertedTexts :
       Called("insert", text) /\ FindIndexById(buffers, activeBufferId, 0) # -1 =>
         LET a == ActiveIndex(Host)
             buf == buffers[a]
         IN /\ buffers'[a] =
                 [buf EXCEPT !.content = Slice(buf.content, 0, buf.cursorPosition) \o text
                                           \o SliceFrom(buf.content, buf.cursorPosition),
                             !.cursorPosition = buf.cursorPosition + Len(text),
                             !.isModified = TRUE]
            /\ Len(buffers') = Len(buffers)
            /\ \A i \in 1..Len(buffers) : i # a => buffers'[i] = buffers[i]
            /\ activeBufferId' = activeBufferId]_vars

\* C19's case: insert("abc") was called with a second buffer active, and
\* the first buffer is as it was at the start.
C19_Witness ==
  /\ last.op = "insert" /\ last.key = "abc"
  /\ Len(buffers) >= 2 /\ ActiveIndex(Host) = 2
  /\ buffers[2].content = "abc" \o "React Emacs initialization complete.\n"
  /\ buffers[2].cursorPosition = 3 /\ buffers[2].isModified
  /\ buffers[1] = INITIAL_BUFFERS[1]

(***************************************************************************)
(* Moving the cursor with goto-char.                                       *)
(***************************************************************************)
\* The offsets given to goto-char: below 0, inside the contents, at the end
\* of the second buffer's content, one past it, and past every content.
Offsets == {-1, 0, 2, 37, 38, 2000}

GotoOf(n) == Form("goto-char", <<NumToStr(n)>>)

PointSources ==
  {GotoOf(n) : n \in Offsets} \cup {SwitchOf("*Messages*"), SwitchOf("a"), InsertOf("ab")}

NextPoint == \E code \in PointSources : EvalSexp(code)

SpecPoint == Init /\ [][NextPoint]_vars

\* The number the primitive fn, called without arguments, returns after the
\* step.
After(fn) == CallPrimitive(fn, <<>>, HostNext).val.value

\* C18: (goto-char n) returns n, changes the content of no buffer and
\* leaves the cursor of the active buffer at n, brought into the range from
\* 0 to the length of the content: afterwards
\* (point-min) <= (point) <= (point-max).
C18_GotoChar ==
  [][\A n \in Offsets :
       Evaluated(GotoOf(n)) =>
         LET a == ActiveIndex(Host)
             length == Len(buffers[a].content)
             clamped == IF n < 0 THEN 0 ELSE IF n > length THEN length ELSE n
         IN /\ Returned(mkNum(n))
            /\ buffers' = [buffers EXCEPT ![a].cursorPosition = clamped]
            /\ activeBufferId' = activeBufferId
            /\ After("point") = clamped
            /\ After("point-min") <= After("point")
            /\ After("point") <= After("point-max")]_vars

\* C18's case: (goto-char 38) in the second buffer, whose content has 37
\* characters, has left the cursor at 37.
C18_Witness ==
  /\ last.op = "evalSexp" /\ last.code = GotoOf(38)
  /\ ActiveIndex(Host) = 2 /\ Len(buffers[2].content) = 37
  /\ buffers[2].cursorPosition = 37
  /\ last.val = mkNum(38)

(***************************************************************************)
(* C-x C-e: evaluating the expression before the cursor.                   *)
(***************************************************************************)
\* The offset of text after its part, which occurs once in it.
OffsetAfter(text, part) ==
  CHOOSE i \in Len(part)..Len(text) : SubSeq(text, i - Len(part) + 1, i) = part

\* Where the cursor is put in the first buffer: at the start, after a word
\* of the comment, inside and at the end of the line (+ 2 2), at the end of
\* the message line, at the end of the last line and after its line break.
CursorOffsets ==
  {0,
   OffsetAfter(WELCOME_MESSAGE, "Keybindings:"),
   OffsetAfter(WELCOME_MESSAGE, "(+ 2 2"),
   OffsetAfter(WELCOME_MESSAGE, "(+ 2 2)"),
   OffsetAfter(WELCOME_MESSAGE, "(message \"Hello from Emacs!\")"),
   Len(WELCOME_MESSAGE) - 1,
   Len(WELCOME_MESSAGE)}

\* The contents typed into the buffer, the cursor after them.
TypedTexts == {"", "(", "(car (list))"}

NextChord ==
  \/ EditorKeyDown("x", TRUE, FALSE)
  \/ EditorKeyDown("e", TRUE, FALSE)
  \/ EditorKeyDown("g", TRUE, FALSE)
  \/ \E p \in CursorOffsets : EditorSelect(p)
  \/ \E c \in TypedTexts : EditorChange(c, Len(c))

SpecChord == Init /\ [][NextChord]_vars

\* The key of the step, or of the step before it.
CtrlKey(event, key) ==
  event.op = "editorKey" /\ event.key = key /\ event.isCtrl /\ ~event.isMeta

\* C20: C-x pressed in NORMAL mode and C-e pressed next evaluate, once,
\* what findLastSexp returns for the content and the cursor of the active
\* buffer, as evalSexp of the Eval prompt does: the state is the one that
\* evalSexp leaves, in NORMAL mode with an empty chordStack.  When
\* findLastSexp returns nothing (none, or the empty text, which is no
\* expression) the echo is "End of file or no sexp found" and no buffer
\* changes.  With the cursor at the end of the line (+ 2 2) the echo is "4".
C20_EvalLastSexp ==
  [][CtrlKey(last, "x") /\ last.from = "NORMAL" /\ CtrlKey(last', "e") =>
       LET active == ActiveBuffer(Host)
           sexp == findLastSexp(active.content, active.cursorPosition)
           Same(r) ==
             /\ HostNext = r.h
             /\ lispEnv' = r.vars
             /\ last'.evaluated =
                  <<[code |-> sexp.text, ok |-> r.ok, val |-> r.val, error |-> r.error]>>
       IN /\ editorMode' = "NORMAL" /\ chordStack' = ""
          /\ minibuffer' = minibuffer
          /\ IF sexp.found /\ sexp.text # ""
             THEN Same(evalSexp(sexp.text, lispEnv, Host))
             ELSE /\ message' = "End of file or no sexp found"
                  /\ last'.evaluated = <<>>
                  /\ UNCHANGED <<buffers, activeBufferId, lispEnv>>
          /\ sexp.found /\ sexp.text = "(+ 2 2)" => message' = "4"]_vars

\* C20's case: C-x C-e with the cursor at the end of the line (+ 2 2) has
\* evaluated that line and echoed 4.
C20_Witness ==
  /\ CtrlKey(last, "e") /\ last.from = "WAITING_FOR_CHORD"
  /\ ActiveBuffer(Host).cursorPosition = OffsetAfter(WELCOME_MESSAGE, "(+ 2 2)")
  /\ last.evaluated = <<[code |-> "(+ 2 2)", ok |-> TRUE, val |-> mkNum(4), error |-> ""]>>
  /\ message = "4"
  /\ editorMode = "NORMAL" /\ chordStack = ""

(***************************************************************************)
(* The order of evaluation in a function application.                      *)
(***************************************************************************)
\* A form that appends the digit k to the global number n and returns the
\* new n: the digits of n are the marks in the order they were evaluated.
Mark(k) == "(setq n (+ (* n 10) " \o NumToStr(k) \o "))"

\* The form evaluated after n is set to 0.
FromZero(form) == Progn(<<"(setq n 0)", form>>)

\* A function that returns its two arguments and the n it finds.
DefunList == "(defun f (a b) (list a b n))"

ApplyMarkedHead == FromZero(Form("(progn " \o Mark(7) \o " +)", <<Mark(1), Mark(2)>>))
ApplyFunction == FromZero(Form("f", <<Mark(1), Mark(2)>>))
ApplyInLet == FromZero("(let ((x 5)) " \o Form("f", <<"x", Mark(3)>>) \o ")")
ApplyFailingArgument == FromZero(Form("+", <<Mark(1), "nope", Mark(2)>>))
ApplyNumber == FromZero(Form("5", <<Mark(1), Mark(2)>>))
ApplyString == FromZero(Form("\"s\"", <<Mark(1)>>))
ApplyNil == FromZero(Form("nil", <<Mark(1), Mark(2), Mark(3)>>))
ApplyInsertToNumber == Form("5", <<InsertOf("ab")>>)

ApplySources ==
  {DefunList, ApplyMarkedHead, ApplyFunction, ApplyInLet, ApplyFailingArgument,
   ApplyNumber, ApplyString, ApplyNil, ApplyInsertToNumber}

NextApply == \E code \in ApplySources \cup ContextSources \cup GlobalSources : EvalSexp(code)

SpecApply == Init /\ [][NextApply]_vars

\* The step left n with the digits marks.
LeftMarks(marks) == "n" \in DOMAIN lispEnv' /\ lispEnv'["n"] = mkNum(marks)

InvalidCall(json) == Failed("Invalid function call: " \o json)

TypedNames ==
  IF minibuffer.type = "COMMAND" THEN {"kill-buffer", "gemini-explain"} ELSE {"scratch"}

\* The response of the service in this specification.
Explained == [ok |-> TRUE, text |-> "hi"]

ActiveSources == {KillOf("scratch"), SwitchOf("scratch")}

\* The primitives from evalSexp, the chords C-x C-f, C-x b and C-x k, M-x
\* with a command typed, the commit of what was typed, and the completions
\* of the awaited gemini-explain requests.
NextActive ==
  \/ \E code \in ActiveSources : EvalSexp(code)
  \/ \E key \in {"x", "f"} : EditorKeyDown(key, TRUE, FALSE)
  \/ \E key \in {"b", "k"} : EditorKeyDown(key, FALSE, FALSE)
  \/ EditorKeyDown("x", FALSE, TRUE)
  \/ \E name \in TypedNames : MinibufferInput(name)
  \/ minibuffer.input # "" /\ MinibufferKeyDown("Enter", FALSE)
  \/ \E i \in 1..MaxPending : GeminiCompletes(i, Explained)

SpecActive == Init /\ [][NextActive]_vars

\* The 1-based indices of the buffers that have the active id.
ActiveOnes == {i \in 1..Len(buffers) : buffers[i].id = activeBufferId}

\* C22: in every state reached through the switch-to-buffer and kill-buffer
\* primitives, the find-file, switch-buffer and kill-buffer commands and the
\* completions of gemini-explain, exactly one buffer has the id
\* activeBufferId.
C22_OneActiveBuffer == Cardinality(ActiveOnes) = 1

\* C22's case: switch-to-buffer made a buffer of the name "scratch" and
\* gave it the id of the initial buffer *scratch*, which is the active id.
C22_Witness ==
  /\ last.op = "evalSexp" /\ last.code = SwitchOf("scratch") /\ last.ok
  /\ activeBufferId = "scratch"
  /\ \E i, j \in ActiveOnes : buffers[i].name = "*scratch*" /\ buffers[j].name = "scratch"

(***************************************************************************)
(* The cursor of every buffer.                                             *)
(***************************************************************************)
CursorSources ==
  {InsertOf("ab"), GotoOf(2), SwitchOf("*scratch*"), KillOf("*Gemini-Explain*")}

\* The responses of the service in this specification: a text, and none.
Explanations == {[ok |-> TRUE, text |-> "hi"], [ok |-> TRUE, text |-> ""]}

\* No cursor is more than MaxInserted characters beyond the end of its buffer.
CursorsNear ==
  {i \in 1..Len(buffers) :
     buffers[i].cursorPosition > Len(buffers[i].content) + MaxInserted} = {}

\* insert, goto-char, switch-to-buffer and kill-buffer from evalSexp (while
\* the cursors are near), the keys C-n and C-p (with the cursor in the first
\* two lines), M-x with gemini-explain typed and committed, and the
\* completions of the awaited requests.
NextCursor ==
  \/ \E code \in CursorSources : CursorsNear /\ EvalSexp(code)
  \/ \E key \in {"n", "p"} :
       /\ RenderedBuffer(Editor).cursorPosition <= MaxKeyCursor
       /\ EditorKeyDown(key, TRUE, FALSE)
  \/ EditorKeyDown("x", FALSE, TRUE)
  \/ MinibufferInput("gemini-explain")
  \/ minibuffer.input # "" /\ MinibufferKeyDown("Enter", FALSE)
  \/ \E i \in 1..MaxPending, outcome \in Explanations : GeminiCompletes(i, outcome)

SpecCursor == Init /\ [][NextCursor]_vars

\* C23: in every state reached through insert, goto-char, switch-to-buffer,
\* kill-buffer, C-n, C-p and gemini-explain, the cursor of every buffer is
\* at least 0 and at most the length of the buffer's content.
C23_CursorInRange ==
  \A i \in 1..Len(buffers) :
    0 <= buffers[i].cursorPosition /\ buffers[i].cursorPosition <= Len(buffers[i].content)

\* C23's case: a gemini-explain request completed while the buffer
\* *Gemini-Explain* existed with its cursor after the first character, and
\* the explanation is shorter than that.
C23_Witness ==
  /\ last.op = "gemini" /\ last.kind = "explain"
  /\ \E i \in 1..Len(buffers) :
       /\ buffers[i].name = "*Gemini-Explain*"
       /\ buffers[i].content = last.text
       /\ buffers[i].cursorPosition > Len(last.text)

(***************************************************************************)
(* The answers to ask-gemini.                                              *)
(***************************************************************************)
\* What is typed into the minibuffer: the command at the prompt of M-x, a
\* question at the prompt of ask-gemini.
AskTyped == IF minibuffer.type = "COMMAND" THEN "ask-gemini" ELSE "q"

AskSources == {SwitchOf("a"), SwitchOf("*scratch*"), KillOf("a"), GotoOf(2)}

\* M-x with ask-gemini typed and committed, the question typed and
\* committed, the completions of the awaited requests with every outcome of
\* the service, and between them evaluations that switch and kill buffers
\* and move the cursor.
NextAsk ==
  \/ EditorKeyDown("x", FALSE, TRUE)
  \/ MinibufferInput(AskTyped)
  \/ minibuffer.input # "" /\ MinibufferKeyDown("Enter", FALSE)
  \/ \E i \in 1..MaxPending, outcome \in ServiceOutcomes : GeminiCompletes(i, outcome)
  \/ \E code \in AskSources : EvalSexp(code)

SpecAsk == Init /\ [][NextAsk]_vars

\* The step is the completion of an ask-gemini request.
Answered == last'.op = "gemini" /\ last'.kind = "ask"

\* C24: the text returned for an ask-gemini prompt is inserted into the
\* buffer that was active when the prompt was committed, at that buffer's
\* cursor, whatever buffer is active when the request completes; stated for
\* the completions that find that buffer in the list.
C24_AnswerToCommitBuffer ==
  [][Answered /\ FindIndexById(buffers, last'.from, 0) # -1
       => buffers' = apiInsert([Host EXCEPT !.activeBufferId = last'.from],
                               last'.text).buffers]_vars

\* C24's case: the prompt was committed in *scratch*, the buffer a was made
\* active while the request was awaited, and the answer went into a.
C24_Witness ==
  /\ last.op = "gemini" /\ last.kind = "ask" /\ last.from = "scratch" /\ last.text = "hi"
  /\ activeBufferId = "a"
  /\ \E i, j \in 1..Len(buffers) :
       /\ buffers[i].id = "scratch" /\ buffers[i].content = WELCOME_MESSAGE
       /\ buffers[j].id = "a" /\ buffers[j].content = "hi"

\* C25: when the request of ask-gemini fails, no buffer changes and the
\* echo area shows "Gemini API Error."; "Gemini response inserted." is
\* echoed only when the service responded.
C25_FailureInsertsNothing ==
  [][Answered =>
       IF last'.ok THEN message' = "Gemini response inserted."
       ELSE buffers' = buffers /\ message' = "Gemini API Error."]_vars

\* C25's case: the service had no API key, and the text of the error is in
\* the active buffer under the echo "Gemini response inserted.".
C25_Witness ==
  /\ last.op = "gemini" /\ last.kind = "ask" /\ ~last.ok
  /\ last.text = "Error: API Key missing"
  /\ message = "Gemini response inserted."
  /\ ActiveIndex(Host) > 0
  /\ ActiveBuffer(Host).content = "Error: API Key missing"

(***************************************************************************)
(* The chord and the mode.                                                 *)
(***************************************************************************)
\* The keys pressed in the text area: C-x, C-g, C-f, a plain key and M-x.
ModeKeys ==
  {[key |-> "x", isCtrl |-> TRUE, isMeta |-> FALSE],
   [key |-> "g", isCtrl |-> TRUE, isMeta |-> FALSE],
   [key |-> "f", isCtrl |-> TRUE, isMeta |-> FALSE],
   [key |-> "a", isCtrl |-> FALSE, isMeta |-> FALSE],
   [key |-> "x", isCtrl |-> FALSE, isMeta |-> TRUE]}

\* Keys in the text area, gemini-explain typed into the minibuffer, its
\* commit with Enter and its cancel with C-g, and the completions of the
\* awaited gemini-explain requests.
NextMode ==
  \/ \E k \in ModeKeys : EditorKeyDown(k.key, k.isCtrl, k.isMeta)
  \/ MinibufferInput("gemini-explain")
  \/ MinibufferKeyDown("Enter", FALSE)
  \/ MinibufferKeyDown("g", TRUE)
  \/ \E i \in 1..MaxPending : GeminiCompletes(i, Explained)

SpecMode == Init /\ [][NextMode]_vars

\* C26: in every state reached through key presses in the text area,
\* commits and cancels of the minibuffer and completions of gemini-explain
\* requests, chordStack is "C-x" when editorMode is WAITING_FOR_CHORD and
\* empty when it is not.
C26_ChordMatchesMode ==
  chordStack = (IF editorMode = "WAITING_FOR_CHORD" THEN "C-x" ELSE "")

\* C26's case: a gemini-explain request completed while a chord was
\* awaited; the mode is NORMAL and the chord is still there.
C26_Witness ==
  /\ last.op = "gemini" /\ last.kind = "explain" /\ last.mode = "WAITING_FOR_CHORD"
  /\ editorMode = "NORMAL"
  /\ chordStack = "C-x"

(***************************************************************************)
(* The reader comes to an end.                                             *)
(***************************************************************************)
\* An element of a list is read from the offset p of the input, where
\* parseList's loop calls parseExpr: p is in the input, after the white
\* space, and not at a ")".
ElementAt(input, p) ==
  p < Len(input) /\ p = skipWhitespace(input, p) /\ CharAt(input, p) # ")"

\* C27: parse comes to an end on every input: it returns one value or
\* raises "Unclosed list" and nothing else, also for an input that starts
\* with ")" (the symbol of the empty name) and for one that ends after a
\* quote character (the quoted nil); and wherever the list loop reads an
\* element, the reader leaves the cursor after the offset it started from.
C27_ParseEnds ==
  last.op = "parse" =>
    /\ \/ last.ok /\ ~IsUndefined(last.val)
       \/ ~last.ok /\ last.error = "Unclosed list"
    /\ last.code = ")" => last.ok /\ last.val = mkSym("")
    /\ last.code = "'" => last.ok /\ last.val = mkList(<<mkSym("quote"), mkNull>>)
    /\ \A p \in 0..Len(last.code) :
         ElementAt(last.code, p) /\ parseExpr(last.code, p).err = ""
           => parseExpr(last.code, p).pos > p

\* C27's case: the input is a quote character in a list that is not
\* closed; the quote reader came to the end of the input, the list loop
\* ended after it, and the reader raised "Unclosed list".
C27_Witness ==
  /\ last.op = "parse" /\ last.code = "('"
  /\ ElementAt(last.code, 1)
  /\ parseExpr(last.code, 1).pos = 2
  /\ ~last.ok /\ last.error = "Unclosed list"

=============================================================================
